---- MODULE Spec2Model ----
(***************************************************************************)
(* Model of the roguelike core: the entity/component storage with its      *)
(* delta application (src/ecs/ecs.rs, src/ecs/entity.rs, src/ecs.rs), the  *)
(* component merge contract (src/game/components), the door responses      *)
(* (src/game/responses.rs) and the map builder (src/map/mapbuilder.rs).    *)
(***************************************************************************)
EXTENDS Integers, Sequences, FiniteSets, TLC

VARIABLES ecs, last, diff, mb

vars == <<ecs, last, diff, mb>>

(***************************************************************************)
(* Bounds of the model.                                                    *)
(***************************************************************************)
MaxComponents == 2      \* cap on the shared component-id counter
MaxEntities == 2        \* cap on the length of the entity table
MapWidth == 3           \* width of the floor the storage tree partitions
MaxBurnDamage == 1      \* cap on the health an entity loses to fire
IntBits == 8            \* modelled width of isize / i32 (two's complement)

(***************************************************************************)
(* Option<T>: None is the empty sequence, Some(v) the one-element one.     *)
(***************************************************************************)
None == <<>>
Some(v) == <<v>>
IsSome(o) == Len(o) = 1
Unwrap(o) == o[1]

\* stand-in for usize::MAX, the player id of a store without player
USIZE_MAX == 2147483647

(***************************************************************************)
(* Coordinates (src/map/utils.rs) and boxes (src/map/boxextends.rs).       *)
(***************************************************************************)
Coord(x, y) == [x |-> x, y |-> y]

CoordAdd(a, b) == Coord(a.x + b.x, a.y + b.y)

Box(l, t, r, b) == [top_left |-> Coord(l, t), bottom_right |-> Coord(r, b)]

contains_point(box, point) ==
    /\ box.top_left.x <= point.x
    /\ point.x <= box.bottom_right.x
    /\ box.top_left.y <= point.y
    /\ point.y <= box.bottom_right.y

(***************************************************************************)
(* Components: a tagged record {type, id, data}.  IndexedData::new_with    *)
(* gives id 0.                                                             *)
(***************************************************************************)
new_with(type, data) == [type |-> type, id |-> 0, data |-> data]

Unit == [unit |-> TRUE]

ResponseTypes == {"BumpResponse", "ShotResponse", "DeathResponse", "FireResponse"}

EventResponse(own, fn) == [own_entity |-> own, response_function |-> fn]

\* EventResponse::new_with: own_entity defaults to 0
EventResponse_new_with(fn) == EventResponse(0, fn)

(***************************************************************************)
(* Machine integers: isize and i32 additions wrap in two's complement.     *)
(***************************************************************************)
IntModulus == 2 ^ IntBits
IntMin == 0 - (IntModulus \div 2)
IntMax == (IntModulus \div 2) - 1
IntRange == IntMin..IntMax
WrapAdd(a, b) == ((a + b - IntMin) % IntModulus) + IntMin

(***************************************************************************)
(* Diffable payloads.                                                      *)
(***************************************************************************)
Health(current, max) == [current |-> current, max |-> max]

\* Health::new
Health_new(health) == Health(health, health)

\* src/ecs/component/combat.rs, Health::apply_diff
Health_apply_diff(self, other) ==
    [current |-> WrapAdd(self.current, other.current),
     max |-> WrapAdd(self.max, other.max)]

\* src/game/components/inventory.rs, Inventory::apply_diff
Inventory_apply_diff(self, other) ==
    [coins |-> WrapAdd(self.coins, other.coins)]

\* src/map/utils.rs, Coordinate::apply_diff
Coordinate_apply_diff(self, other) ==
    [x |-> WrapAdd(self.x, other.x), y |-> WrapAdd(self.y, other.y)]

\* mutant: the effect type of the right operand is taken
DurationEffect_add_takes_rhs(self, rhs) ==
    [duration |-> WrapAdd(self.duration, rhs.duration), effect |-> rhs.effect]

\* src/game/components/core.rs, DurationEffect::add: the effect type of
\* the left operand is kept
DurationEffect_add(self, rhs) ==
    [duration |-> WrapAdd(self.duration, rhs.duration), effect |-> self.effect]

\* src/game/components/attributes.rs, Attributes::apply_diff
Attributes_apply_diff(self, other) ==
    [strength |-> WrapAdd(self.strength, other.strength),
     dexterity |-> WrapAdd(self.dexterity, other.dexterity),
     level |-> WrapAdd(self.level, other.level),
     xp |-> WrapAdd(self.xp, other.xp),
     level_pending |-> other.level_pending]

\* src/ecs/component/combat.rs, Combat::apply_diff
Combat_apply_diff(self, other) ==
    [melee |-> other.melee, ranged |-> other.ranged]

\* src/game/components/core.rs, ImageHandle::apply_diff
ImageHandle_apply_diff(self, other) ==
    [current |-> other.current, states |-> self.states]

OverwriteTypes ==
    {"Name", "Turn", "Spell", "Collision", "LineOfSight"} \cup ResponseTypes

\* src/game/components/core.rs, Component::apply_diff
apply_diff(self, other) ==
    IF self.type # other.type THEN self
    ELSE IF self.type = "Health"
        THEN [self EXCEPT !.data = Health_apply_diff(self.data, other.data)]
    ELSE IF self.type = "Attributes"
        THEN [self EXCEPT !.data = Attributes_apply_diff(self.data, other.data)]
    ELSE IF self.type = "Combat"
        THEN [self EXCEPT !.data = Combat_apply_diff(self.data, other.data)]
    ELSE IF self.type = "Inventory"
        THEN [self EXCEPT !.data = Inventory_apply_diff(self.data, other.data)]
    ELSE IF self.type = "Position"
        THEN [self EXCEPT !.data = Coordinate_apply_diff(self.data, other.data)]
    ELSE IF self.type = "DurationEffect"
        THEN [self EXCEPT !.data = DurationEffect_add(self.data, other.data)]
    ELSE IF self.type = "Image"
        THEN [self EXCEPT !.data = ImageHandle_apply_diff(self.data, other.data)]
    ELSE IF self.type \in OverwriteTypes
        THEN [self EXCEPT !.data = other.data]
    ELSE self

(***************************************************************************)
(* Spatial room index (src/ecs/entity.rs).  The storage graph is the BSP   *)
(* tree of the floor: node 0 is the whole floor, nodes 1 and 2 are the two *)
(* boxes split_box cut it into (they share the split column).  petgraph    *)
(* lists the neighbours of a node most recently added edge first.          *)
(***************************************************************************)
SplitPoint == MapWidth \div 2

StorageExtends ==
    (0 :> Box(0, 0, MapWidth - 1, 0)) @@
    (1 :> Box(0, 0, SplitPoint, 0)) @@
    (2 :> Box(SplitPoint, 0, MapWidth - 1, 0))

StorageNeighbors == (0 :> <<2, 1>>) @@ (1 :> <<0>>) @@ (2 :> <<0>>)

StorageNodes == DOMAIN StorageExtends

FilterSeq(seq, x) == SelectSeq(seq, LAMBDA n : n # x)

RECURSIVE binary_search_rooms(_, _, _)
\* EntityManager::binary_search_rooms
binary_search_rooms(index, parent, coord) ==
    IF Len(StorageNeighbors[index]) = 1 THEN index
    ELSE LET children == FilterSeq(StorageNeighbors[index], parent)
             first_child == children[1]
             second_child == children[2]
         IN IF contains_point(StorageExtends[first_child], coord)
            THEN binary_search_rooms(first_child, index, coord)
            ELSE binary_search_rooms(second_child, index, coord)

\* EntityManager::get_room_at_coordinate
get_room_at_coordinate(coord) == binary_search_rooms(0, 0, coord)

(***************************************************************************)
(* The ECS value: ComponentManager {next_id, components} and EntityManager *)
(* {entities, ids_to_reuse, room_graph, player_id}.  Entity id e lives at  *)
(* entities[e + 1].  ids_to_reuse is a Vec the code only ever pushes to    *)
(* and never reads: the model keeps the set of its elements.  handed_out   *)
(* logs, in attachment order, the ids that assign_id wrote into            *)
(* components.                                                             *)
(***************************************************************************)
\* ECS::new
ECS_new ==
    [next_id |-> 0,
     components |-> <<>>,
     entities |-> <<>>,
     ids_to_reuse |-> {},
     rooms |-> [n \in StorageNodes |-> {}],
     player_id |-> USIZE_MAX,
     handed_out |-> <<>>]

EntityIds(e) == 0..(Len(e.entities) - 1)

\* EntityManager::get_entity
has_entity(e, id) == id \in EntityIds(e)

entity_data(e, id) == e.entities[id + 1]

ComponentIds(e) == DOMAIN e.components

\* ComponentManager::get_components: the ids of the entity that are in the
\* component table
get_components_from_entity_id(e, id) ==
    IF has_entity(e, id)
    THEN {e.components[c] : c \in entity_data(e, id) \cap ComponentIds(e)}
    ELSE {}

\* EntityManager::get_entity_from_component: the first entity of the table
\* whose set holds the id
get_entity_from_component(e, component_id) ==
    LET owners == {id \in EntityIds(e) : component_id \in entity_data(e, id)}
    IN IF owners = {} THEN None
       ELSE Some(CHOOSE id \in owners : \A o \in owners : id <= o)

\* ECS::get_entity_id_from_identifier
get_entity_id_from_identifier(e, entity) ==
    IF IsSome(entity.entity_id) THEN Some(Unwrap(entity.entity_id))
    ELSE IF IsSome(entity.owned_component_id)
        THEN get_entity_from_component(e, Unwrap(entity.owned_component_id))
    ELSE None

\* EntityIdentifier::new_from_component / new_from_entity
new_from_component(component_id) ==
    [owned_component_id |-> Some(component_id), entity_id |-> None]

new_from_entity(entity_id) ==
    [owned_component_id |-> None, entity_id |-> Some(entity_id)]

\* ComponentManager::remove_component, for a list of ids
remove_components(components, ids) ==
    [c \in (DOMAIN components) \ ids |-> components[c]]

\* mutant: the slot is queued for reuse but keeps its component ids
EntityManager_remove_entity_keeps_ids(e, id) ==
    IF has_entity(e, id)
    THEN [e EXCEPT !.ids_to_reuse = @ \cup {id}]
    ELSE e

\* EntityManager::remove_entity: the slot is emptied and queued for reuse
EntityManager_remove_entity(e, id) ==
    IF has_entity(e, id)
    THEN [e EXCEPT !.entities[id + 1] = {},
                   !.ids_to_reuse = @ \cup {id}]
    ELSE e

\* ECS::remove_entity
remove_entity(e, entity_id) ==
    IF has_entity(e, entity_id)
    THEN EntityManager_remove_entity(
             [e EXCEPT !.components =
                  remove_components(@, entity_data(e, entity_id))],
             entity_id)
    ELSE e

\* ECS::delete_entity
delete_entity(e, entity) ==
    LET target == get_entity_id_from_identifier(e, entity)
    IN IF IsSome(target)
       THEN LET entity_id == Unwrap(target)
                comps == {c.id : c \in get_components_from_entity_id(e, entity_id)}
            IN remove_entity([e EXCEPT !.components = remove_components(@, comps)],
                             entity_id)
       ELSE e

\* EntityManager::remove_component
EntityManager_remove_component(e, id, component_id) ==
    IF has_entity(e, id)
    THEN [e EXCEPT !.entities[id + 1] = @ \ {component_id}]
    ELSE e

\* ECS::remove_component
remove_component(e, entity_id, component_id) ==
    LET detached == EntityManager_remove_component(e, entity_id, component_id)
    IN [detached EXCEPT !.components = remove_components(@, {component_id})]

\* ECS::delete_component
delete_component(e, component_id, entity_id) ==
    IF IsSome(entity_id)
    THEN remove_component(e, Unwrap(entity_id), component_id)
    ELSE LET owner == get_entity_from_component(e, component_id)
         IN IF IsSome(owner)
            THEN remove_component(e, Unwrap(owner), component_id)
            ELSE e

\* mutant: the entity is taken out of the room it leaves and put into none
set_entity_position_nowhere(e, entity_id, new_position, old_position) ==
    IF IsSome(old_position)
    THEN [e EXCEPT !.rooms[get_room_at_coordinate(Unwrap(old_position))] = @ \ {entity_id}]
    ELSE e

\* EntityManager::set_entity_position
set_entity_position(e, entity_id, new_position, old_position) ==
    LET cleared ==
            IF IsSome(old_position)
            THEN [e.rooms EXCEPT ![get_room_at_coordinate(Unwrap(old_position))] =
                      @ \ {entity_id}]
            ELSE e.rooms
    IN [e EXCEPT !.rooms =
            [cleared EXCEPT ![get_room_at_coordinate(new_position)] =
                 @ \cup {entity_id}]]

\* ECS::update_entity_position
update_entity_position(e, indexed_change) ==
    IF /\ indexed_change.id \in ComponentIds(e)
       /\ e.components[indexed_change.id].type = "Position"
       /\ IsSome(get_entity_from_component(e, indexed_change.id))
    THEN LET old_pos == e.components[indexed_change.id].data
             new_pos == Coordinate_apply_diff(old_pos, indexed_change.data)
         IN set_entity_position(e,
                Unwrap(get_entity_from_component(e, indexed_change.id)),
                new_pos, Some(old_pos))
    ELSE e

\* ComponentManager::apply_change
ComponentManager_apply_change(e, change) ==
    IF change.id \in ComponentIds(e)
    THEN [e EXCEPT !.components[change.id] = apply_diff(@, change)]
    ELSE e

\* mutant: the lowest id not in the table is recycled
assign_id_recycles(e) ==
    [id |-> CHOOSE c \in 0..e.next_id :
                c \notin ComponentIds(e) /\ \A b \in 0..(c - 1) : b \in ComponentIds(e),
     next_id |-> e.next_id + 1]

\* ComponentManager::assign_id: the id handed out, and the counter after it
assign_id(e) == [id |-> e.next_id, next_id |-> e.next_id + 1]

\* ECS::create_entity with EntityManager::register_new / next_id: the new
\* entity takes the slot after the last one
create_entity(e) == [e EXCEPT !.entities = Append(@, {})]

\* the positions get_component_from_entity_id(entity, Position) can return:
\* the first Position component in the iteration order of a HashSet
old_positions(e, entity_id) ==
    LET held == {c \in get_components_from_entity_id(e, entity_id) :
                     c.type = "Position"}
    IN IF held = {} THEN {None} ELSE {Some(c.data) : c \in held}

\* ECS::attatch_component, for one of the possible old positions
attatch_component(e, entity_id, component, old_position) ==
    LET bound == IF component.type \in ResponseTypes
                 THEN [component EXCEPT !.data.own_entity = entity_id]
                 ELSE component
        placed == IF component.type = "Position"
                  THEN set_entity_position(e, entity_id, component.data, old_position)
                  ELSE e
        owned == IF has_entity(placed, entity_id)
                 THEN [placed EXCEPT !.entities[entity_id + 1] = @ \cup {component.id}]
                 ELSE placed
    IN [ecs |-> owned, component |-> bound]

\* the Player branch of ECS::add_component_to_entity
replace_player(e, entity_id) ==
    LET cleared ==
            IF has_entity(e, e.player_id)
            THEN EntityManager_remove_entity(
                     [e EXCEPT !.components =
                          remove_components(@, entity_data(e, e.player_id))],
                     e.player_id)
            ELSE e
    IN [cleared EXCEPT !.player_id = entity_id]

\* ECS::add_component_to_entity: the set of stores it can produce
add_component_to_entity(e, entity_id, component) ==
    LET e1 == IF component.type = "Player" THEN replace_player(e, entity_id) ELSE e
        a == assign_id(e1)
        e2 == [e1 EXCEPT !.next_id = a.next_id,
                         !.handed_out = Append(@, a.id)]
        numbered == [component EXCEPT !.id = a.id]
    IN {LET att == attatch_component(e2, entity_id, numbered, old)
        IN [att.ecs EXCEPT !.components =
                (a.id :> att.component) @@ att.ecs.components]
        : old \in old_positions(e2, entity_id)}

RECURSIVE add_components_to_entity(_, _, _)
\* ECS::add_components_to_entity
add_components_to_entity(e, entity_id, components) ==
    IF components = <<>> THEN {e}
    ELSE UNION {add_components_to_entity(e1, entity_id, Tail(components))
                : e1 \in add_component_to_entity(e, entity_id, Head(components))}

\* ECS::add_component
add_component(e, component, entity) ==
    LET target == get_entity_id_from_identifier(e, entity)
    IN IF IsSome(target)
       THEN add_component_to_entity(e, Unwrap(target), component)
       ELSE {e}

(***************************************************************************)
(* Deltas (src/ecs/ecs.rs).                                                *)
(***************************************************************************)
Change(component) == [kind |-> "Change", component |-> component]

DeleteComponent(component_id, entity_id) ==
    [kind |-> "DeleteComponent", component_id |-> component_id,
     entity_id |-> entity_id]

DeleteEntity(entity) == [kind |-> "DeleteEntity", entity |-> entity]

MakeComponent(component, entity) ==
    [kind |-> "MakeComponent", component |-> component, entity |-> entity]

MakeEntity(components) == [kind |-> "MakeEntity", components |-> components]

\* ECS::apply_change: the set of stores the delta can produce
apply_change(e, change) ==
    IF change.kind = "Change"
    THEN LET moved == IF change.component.type = "Position"
                      THEN update_entity_position(e, change.component)
                      ELSE e
         IN {ComponentManager_apply_change(moved, change.component)}
    ELSE IF change.kind = "DeleteComponent"
    THEN {delete_component(e, change.component_id, change.entity_id)}
    ELSE IF change.kind = "MakeComponent"
    THEN add_component(e, change.component, change.entity)
    ELSE IF change.kind = "DeleteEntity"
    THEN {delete_entity(e, change.entity)}
    ELSE add_components_to_entity(create_entity(e), Len(e.entities),
                                  change.components)

RECURSIVE apply_changes(_, _)
\* ECS::apply_changes
apply_changes(e, change_list) ==
    IF change_list = <<>> THEN {e}
    ELSE UNION {apply_changes(e1, Tail(change_list))
                : e1 \in apply_change(e, Head(change_list))}

(***************************************************************************)
(* Specification of the store under arbitrary deltas.  last records the    *)
(* delta applied last, the entity it resolved to and what that entity and  *)
(* the table held before.                                                  *)
(***************************************************************************)
Idle == [kind |-> "Idle"]

EcsCoords == {Coord(0, 0), Coord(MapWidth - 1, 0)}

EcsTemplates ==
    {new_with("Player", Unit), new_with("Collision", "Blocking")}

ComponentIdInputs == 0..(MaxComponents - 1)

\* an id below the cap names no entity while the table is shorter
EntityIdInputs == 0..(MaxEntities - 1)

Identifiers ==
    {new_from_entity(i) : i \in EntityIdInputs}
    \cup {new_from_component(c) : c \in ComponentIdInputs}

ChangePayloads == {new_with("Collision", "Walkable")}

ChangeInputs ==
    {Change([p EXCEPT !.id = c]) : p \in ChangePayloads, c \in ComponentIdInputs}

SeqsUpTo(S, n) == UNION {[1..k -> S] : k \in 0..n}

\* the model keeps positions on the floor
ChangeInBounds(e, d) ==
    LET c == d.component
    IN c.id \in ComponentIds(e) /\ e.components[c.id].type = c.type =>
          LET merged == apply_diff(e.components[c.id], c)
          IN c.type = "Position" => merged.data.x \in 0..(MapWidth - 1)

\* what last records about the application of d to store e: for a
\* DeleteEntity the entity it resolved to and the ids that entity owned, for
\* a DeleteComponent the id, the owner found by reverse lookup and whether
\* the id was in the component table
Record(e, d) ==
    LET target ==
            IF d.kind = "DeleteEntity"
            THEN get_entity_id_from_identifier(e, d.entity)
            ELSE IF d.kind = "DeleteComponent"
            THEN get_entity_from_component(e, d.component_id)
            ELSE None
    IN [kind |-> d.kind,
        target |-> target,
        owned |-> IF d.kind = "DeleteEntity" /\ IsSome(target)
                     /\ has_entity(e, Unwrap(target))
                  THEN entity_data(e, Unwrap(target)) ELSE {},
        component_id |-> IF d.kind = "DeleteComponent" THEN Some(d.component_id)
                         ELSE None,
        existed |-> d.kind = "DeleteComponent" /\ d.component_id \in ComponentIds(e)]

Apply(d) ==
    /\ ecs' \in apply_change(ecs, d)
    /\ last' = Record(ecs, d)
    /\ UNCHANGED <<diff, mb>>

ApplyChange ==
    \E d \in ChangeInputs : ChangeInBounds(ecs, d) /\ Apply(d)

ApplyDeleteComponent ==
    \E c \in ComponentIdInputs, hint \in {None} \cup {Some(i) : i \in EntityIdInputs} :
        Apply(DeleteComponent(c, hint))

ApplyDeleteEntity ==
    \E entity \in Identifiers : Apply(DeleteEntity(entity))

ApplyMakeComponent ==
    \E component \in EcsTemplates, entity \in Identifiers :
        /\ ecs.next_id < MaxComponents
        /\ Apply(MakeComponent(component, entity))

ApplyMakeEntity ==
    \E components \in SeqsUpTo(EcsTemplates, MaxComponents - ecs.next_id) :
        /\ Len(ecs.entities) < MaxEntities
        /\ Apply(MakeEntity(components))

InitEcs ==
    /\ ecs = ECS_new
    /\ last = Idle
    /\ diff = Idle
    /\ mb = Idle

NextEcs ==
    \/ ApplyChange
    \/ ApplyDeleteComponent
    \/ ApplyDeleteEntity
    \/ ApplyMakeComponent
    \/ ApplyMakeEntity

SpecEcs == InitEcs /\ [][NextEcs]_vars

(***************************************************************************)
(* Specification of two Change deltas against one component, applied in    *)
(* both orders.  diff.ab is the store that takes a then b, diff.ba the     *)
(* store that takes b then a; both start from the same store, one entity   *)
(* holding the component.                                                  *)
(***************************************************************************)
DiffInts == {IntMin, 0 - 1, 0, 1, IntMax}

\* Attributes::default
Attributes_default ==
    [strength |-> 0, dexterity |-> 0, level |-> 0, xp |-> 0, level_pending |-> FALSE]

\* the components the deltas are merged into
DiffBases ==
    {new_with("Health", Health(c, m)) : c, m \in {1, IntMax}}
    \cup {new_with("Inventory", [coins |-> c]) : c \in {0, IntMax}}
    \cup {new_with("Position", c) : c \in EcsCoords}
    \cup {new_with("DurationEffect", [duration |-> d, effect |-> "Burning"])
          : d \in {1, IntMax}}
    \cup {new_with("Attributes",
                   [Attributes_default EXCEPT !.strength = 1, !.level = 1, !.xp = x])
          : x \in {0, IntMax}}

\* the payloads of the Change deltas, by component type
DiffDeltas(type) ==
    IF type = "Health" THEN {Health(c, m) : c, m \in DiffInts}
    ELSE IF type = "Inventory" THEN {[coins |-> c] : c \in DiffInts}
    ELSE IF type = "Position" THEN {Coord(x, y) : x, y \in DiffInts}
    ELSE IF type = "DurationEffect"
        THEN {[duration |-> d, effect |-> f] : d \in DiffInts, f \in {"None", "Burning"}}
    ELSE {[Attributes_default EXCEPT !.xp = x] : x \in DiffInts}
         \cup {[Attributes_default EXCEPT !.level_pending = TRUE],
               [Attributes_default EXCEPT !.strength = 1],
               [Attributes_default EXCEPT !.dexterity = 1],
               [Attributes_default EXCEPT !.level = 1, !.xp = 0 - 1]}

InitDiff ==
    /\ ecs = Idle /\ last = Idle /\ mb = Idle
    /\ \E base \in DiffBases :
       \E a, b \in DiffDeltas(base.type) :
       \E store \in apply_change(ECS_new, MakeEntity(<<base>>)) :
          diff = [step |-> 0,
                  a |-> [type |-> base.type, id |-> 0, data |-> a],
                  b |-> [type |-> base.type, id |-> 0, data |-> b],
                  ab |-> store, ba |-> store]

\* the first delta of either order
DiffFirst ==
    /\ diff.step = 0
    /\ \E ab \in apply_change(diff.ab, Change(diff.a)),
          ba \in apply_change(diff.ba, Change(diff.b)) :
          diff' = [diff EXCEPT !.step = 1, !.ab = ab, !.ba = ba]
    /\ UNCHANGED <<ecs, last, mb>>

\* the second delta of either order
DiffSecond ==
    /\ diff.step = 1
    /\ \E ab \in apply_change(diff.ab, Change(diff.b)),
          ba \in apply_change(diff.ba, Change(diff.a)) :
          diff' = [diff EXCEPT !.step = 2, !.ab = ab, !.ba = ba]
    /\ UNCHANGED <<ecs, last, mb>>

NextDiff ==
    \/ DiffFirst
    \/ DiffSecond

SpecDiff == InitDiff /\ [][NextDiff]_vars

(***************************************************************************)
(* Event responses (src/game/responses.rs, src/ecs/event.rs).  A response  *)
(* receives the components of its own entity in the iteration order of a   *)
(* HashSet, so each response is the set of delta lists it can return.  An  *)
(* event is [event_type, payload], the payload the set of components the   *)
(* sender copied into it.                                                  *)
(***************************************************************************)
\* take_component_from_refs, and Iterator::find in
\* get_component_from_entity_id: any component of the type can be the match
take_component_from_refs(comp_type, components) ==
    LET matching == {c \in components : c.type = comp_type}
    IN IF matching = {} THEN {None} ELSE {Some(c) : c \in matching}

\* IndexedData::make_change
make_change(indexed, data) == [indexed EXCEPT !.data = data]

\* ImageHandle::new: no states
ImageHandle_new(current) == [current |-> current, states |-> <<>>]

\* the response that replaces the payload of the own component of a type
\* when one exists: open_collision_response, close_collision_response,
\* open_los_blocking_response, close_los_blocking_response
overwrite_response(comp_type, data, own_components) ==
    {IF IsSome(c) THEN <<Change(make_change(Unwrap(c), data))>> ELSE <<>>
     : c \in take_component_from_refs(comp_type, own_components)}

\* open_image_response / close_image_response
image_response(state, own_components) ==
    {IF IsSome(image) /\ state \in DOMAIN Unwrap(image).data.states
     THEN <<Change(make_change(Unwrap(image),
                               ImageHandle_new(Unwrap(image).data.states[state])))>>
     ELSE <<>>
     : image \in take_component_from_refs("Image", own_components)}

\* mutant: the new response is built with EventResponse::new_with
set_door_bump_response_new_with(response_function, own_components) ==
    {IF IsSome(old_response)
     THEN <<Change(make_change(Unwrap(old_response),
                               EventResponse_new_with(response_function)))>>
     ELSE <<>>
     : old_response \in take_component_from_refs("BumpResponse", own_components)}

\* set_close_door_bump_response / set_open_door_bump_response
set_door_bump_response(response_function, own_components) ==
    {IF IsSome(old_response)
     THEN <<Change(make_change(Unwrap(old_response),
                               EventResponse(Unwrap(old_response).data.own_entity,
                                             response_function)))>>
     ELSE <<>>
     : old_response \in take_component_from_refs("BumpResponse", own_components)}

\* default_burn_response
default_burn_response(own_components) ==
    UNION {
        IF IsSome(burn)
        THEN {IF Unwrap(burn).data.effect = "Burning" /\ IsSome(health)
              THEN IF Unwrap(burn).data.duration = 0
                   THEN <<DeleteComponent(Unwrap(burn).id, None)>>
                   ELSE <<Change(make_change(Unwrap(health), Health(0 - 1, 0)))>>
              ELSE <<>>
              : health \in take_component_from_refs("Health", own_components)}
        ELSE {<<MakeComponent(new_with("DurationEffect",
                                       [duration |-> 4, effect |-> "Burning"]),
                              new_from_component(first.id))>>
              : first \in own_components}
             \cup (IF own_components = {} THEN {<<>>} ELSE {})
        : burn \in take_component_from_refs("DurationEffect", own_components)}

\* take_damage_response, take_half_damage_response and
\* take_double_damage_response: the health falls by the damage of the
\* attack, by half of it or by twice it (halves counts the halves taken)
take_damage_response(event, own_components, halves) ==
    IF ~IsSome(event.attack) THEN {<<>>}
    ELSE UNION {IF IsSome(health)
                THEN {<<Change(make_change(Unwrap(health),
                                           Health(0 - ((damage * halves) \div 2), 0)))>>
                      : damage \in Unwrap(event.attack).damage}
                ELSE {<<>>}
                : health \in take_component_from_refs("Health", own_components)}

RECURSIVE propagate_event(_, _, _)

\* spread_fire_response: a Fire event for the owner of the first component
\* of the payload
spread_fire_response(event, e) ==
    IF event.event_type # "Bump" \/ event.payload = {} THEN {<<>>}
    ELSE UNION {LET owner == get_entity_from_component(e, first.id)
                IN IF IsSome(owner)
                   THEN propagate_event([event_type |-> "Fire", attack |-> None, payload |-> {}],
                                        Unwrap(owner), e)
                   ELSE {<<>>}
                : first \in event.payload}

\* spread_if_on_fire_response
spread_if_on_fire_response(event, own_components, e) ==
    UNION {IF IsSome(burn) /\ Unwrap(burn).data.effect = "Burning"
           THEN spread_fire_response(event, e)
           ELSE {<<>>}
           : burn \in take_component_from_refs("DurationEffect", own_components)}

\* open_door_response: image, collision, bump, line of sight, burn
open_door_response(event, own_components, e) ==
    {image \o collision \o bump \o los \o burn :
        image \in image_response("open", own_components),
        collision \in overwrite_response("Collision", "Walkable", own_components),
        bump \in set_door_bump_response("close_door_response", own_components),
        los \in overwrite_response("LineOfSight", "None", own_components),
        burn \in spread_if_on_fire_response(event, own_components, e)}

\* close_door_response: only without a Position in the payload
close_door_response(event, own_components) ==
    IF \E c \in event.payload : c.type = "Position" THEN {<<>>}
    ELSE {image \o collision \o bump \o los :
             image \in image_response("closed", own_components),
             collision \in overwrite_response("Collision", "Blocking", own_components),
             bump \in set_door_bump_response("open_door_response", own_components),
             los \in overwrite_response("LineOfSight", "Blocking", own_components)}

\* drop_inventory_response: a loot entity with the inventory of the owner
\* at its position
drop_inventory_response(own_components) ==
    {IF IsSome(maybe_my_inventory) /\ IsSome(maybe_my_position)
     THEN <<MakeEntity(<<new_with("Collision", "Walkable"),
                         new_with("Image", ImageHandle_new([id |-> 15, depth |-> 6])),
                         new_with("Position", Unwrap(maybe_my_position).data),
                         new_with("Inventory", Unwrap(maybe_my_inventory).data),
                         new_with("BumpResponse",
                                  EventResponse_new_with("pickup_loot_response"))>>)>>
     ELSE <<>>
     : maybe_my_inventory \in take_component_from_refs("Inventory", own_components),
       maybe_my_position \in take_component_from_refs("Position", own_components)}

\* pickup_loot_response: award_inventory_response hands the coins to a
\* player that sent its inventory and attributes, and delete_self_response
\* deletes the owner of the component the loot lists first
pickup_loot_response(event, own_components) ==
    UNION {
        IF /\ IsSome(maybe_player) /\ IsSome(maybe_inventory)
           /\ IsSome(maybe_my_inventory) /\ IsSome(maybe_stats)
        THEN {<<Change(make_change(Unwrap(maybe_inventory), Unwrap(maybe_my_inventory).data)),
                Change(make_change(Unwrap(maybe_my_inventory),
                                   [coins |-> 0 - Unwrap(maybe_my_inventory).data.coins])),
                Change(make_change(Unwrap(maybe_stats),
                                   [Attributes_default EXCEPT
                                      !.xp = Unwrap(maybe_my_inventory).data.coins])),
                DeleteEntity(new_from_component(first.id))>>
              : first \in own_components}
        ELSE {<<>>}
        : maybe_player \in take_component_from_refs("Player", event.payload),
          maybe_inventory \in take_component_from_refs("Inventory", event.payload),
          maybe_stats \in take_component_from_refs("Attributes", event.payload),
          maybe_my_inventory \in take_component_from_refs("Inventory", own_components)}

\* EventResponse::process_event: the response function is called with the
\* components of own_entity
process_event(response, event, e) ==
    LET own_components == get_components_from_entity_id(e, response.own_entity)
    IN IF response.response_function = "open_door_response"
       THEN open_door_response(event, own_components, e)
       ELSE IF response.response_function = "close_door_response"
       THEN close_door_response(event, own_components)
       ELSE IF response.response_function = "default_burn_response"
       THEN default_burn_response(own_components)
       ELSE IF response.response_function = "take_damage_response"
       THEN take_damage_response(event, own_components, 2)
       ELSE IF response.response_function = "take_half_damage_response"
       THEN take_damage_response(event, own_components, 1)
       ELSE IF response.response_function = "take_double_damage_response"
       THEN take_damage_response(event, own_components, 4)
       ELSE IF response.response_function = "drop_inventory_response"
       THEN drop_inventory_response(own_components)
       ELSE IF response.response_function = "pickup_loot_response"
       THEN pickup_loot_response(event, own_components)
       ELSE IF response.response_function = "spread_fire_response"
       THEN spread_fire_response(event, e)
       ELSE {<<>>}

\* mutant: the response components of the target are invoked whatever their
\* kind
propagate_event_any_kind(event, entity_id, e) ==
    LET responses == {c \in get_components_from_entity_id(e, entity_id) :
                         c.type \in ResponseTypes}
    IN IF responses = {} THEN {<<>>}
       ELSE UNION {process_event(c.data, event, e) : c \in responses}

\* propagate_event, with event_to_reponse_type
propagate_event(event, entity_id, e) ==
    UNION {IF IsSome(comp) THEN process_event(Unwrap(comp).data, event, e)
           ELSE {<<>>}
           : comp \in take_component_from_refs(
                          event.event_type \o "Response",
                          get_components_from_entity_id(e, entity_id))}

\* make_door
make_door(e, start) ==
    add_components_to_entity(create_entity(e), Len(e.entities),
        <<new_with("Door", Unit),
          new_with("Image", [current |-> [id |-> 9, depth |-> 7],
                             states |-> [open |-> [id |-> 10, depth |-> 7],
                                         closed |-> [id |-> 9, depth |-> 7]]]),
          new_with("Position", start),
          new_with("Health", Health_new(6)),
          new_with("Collision", "Blocking"),
          new_with("LineOfSight", "Blocking"),
          new_with("BumpResponse", EventResponse_new_with("open_door_response")),
          new_with("FireResponse", EventResponse_new_with("default_burn_response"))>>)

\* make_player
make_player(e, start) ==
    add_components_to_entity(create_entity(e), Len(e.entities),
        <<new_with("Player", Unit),
          new_with("Name", "Bartholomew"),
          new_with("Image", ImageHandle_new([id |-> 3, depth |-> 5])),
          new_with("Position", start),
          new_with("Combat",
                   [melee |-> Some([damage_base |-> 1, damage_spread |-> 7, max_range |-> 0]),
                    ranged |-> Some([damage_base |-> 2, damage_spread |-> 0, max_range |-> 5])]),
          new_with("Health", Health(10, 10)),
          new_with("Inventory", [coins |-> 0]),
          new_with("Collision", "Blocking"),
          new_with("Attributes",
                   [Attributes_default EXCEPT !.strength = 5, !.dexterity = 5, !.level = 1]),
          new_with("BumpResponse", EventResponse_new_with("take_damage_response")),
          new_with("ShotResponse", EventResponse_new_with("take_damage_response")),
          new_with("FireResponse", EventResponse_new_with("default_burn_response")),
          new_with("Spell", [name |-> "Mass Flames", effect |-> "mass_flame",
                             castable |-> "Available"]),
          new_with("Spell", [name |-> "Brittle", effect |-> "brittle",
                             castable |-> "Available"])>>)

\* AIState::Alert and AIState::Sleeping
Alert == [kind |-> "Alert", counter |-> 0]

Sleeping(counter) == [kind |-> "Sleeping", counter |-> counter]

\* TurnTaker::new_melee, new_fast_melee, new_slow_melee: the behaviour with
\* the Cell of SlowBehavior (acted_last_turn), the default state and the
\* grid the monster follows
TurnTaker_new(behavior, avoid_hazards) ==
    [behavior |-> [kind |-> behavior, acted_last_turn |-> FALSE],
     state |-> Alert,
     avoid_hazards |-> avoid_hazards]

\* the components make_doggo, make_bat, make_heavy and make_skelly share
monster_components(name, image_id, start, melee, health) ==
    <<new_with("Monster", Unit),
      new_with("Name", name),
      new_with("Image", ImageHandle_new([id |-> image_id, depth |-> 5])),
      new_with("Position", start),
      new_with("Combat", [melee |-> Some(melee), ranged |-> None]),
      new_with("Health", Health_new(health)),
      new_with("Collision", "Blocking"),
      new_with("BumpResponse", EventResponse_new_with("take_damage_response"))>>

\* make_doggo on the first floor below the entrance, its health the roll
make_doggo(e, start, health) ==
    add_components_to_entity(create_entity(e), Len(e.entities),
        monster_components("Doggo", 6, start,
                           [damage_base |-> 1, damage_spread |-> 2, max_range |-> 0], health)
        \o <<new_with("ShotResponse", EventResponse_new_with("take_damage_response")),
             new_with("FireResponse", EventResponse_new_with("default_burn_response")),
             new_with("Turn", TurnTaker_new("Melee", TRUE))>>)

\* make_bat
make_bat(e, start, health) ==
    add_components_to_entity(create_entity(e), Len(e.entities),
        monster_components("Bat", 23, start,
                           [damage_base |-> 1, damage_spread |-> 1, max_range |-> 0], health)
        \o <<new_with("ShotResponse", EventResponse_new_with("take_damage_response")),
             new_with("FireResponse", EventResponse_new_with("default_burn_response")),
             new_with("Turn", TurnTaker_new("FastMelee", FALSE)),
             new_with("DurationEffect", [duration |-> 0 - 1, effect |-> "Levitate"])>>)

\* make_heavy
make_heavy(e, start, health) ==
    add_components_to_entity(create_entity(e), Len(e.entities),
        monster_components("Boar", 11, start,
                           [damage_base |-> 3, damage_spread |-> 3, max_range |-> 0], health)
        \o <<new_with("ShotResponse", EventResponse_new_with("take_damage_response")),
             new_with("FireResponse", EventResponse_new_with("default_burn_response")),
             new_with("Turn", TurnTaker_new("Slow", TRUE))>>)

\* make_skelly, with the coins of its inventory
make_skelly(e, start, health, coins) ==
    add_components_to_entity(create_entity(e), Len(e.entities),
        monster_components("Skeleton", 13, start,
                           [damage_base |-> 1, damage_spread |-> 2, max_range |-> 0], health)
        \o <<new_with("Inventory", [coins |-> coins]),
             new_with("ShotResponse", EventResponse_new_with("take_half_damage_response")),
             new_with("DeathResponse", EventResponse_new_with("drop_inventory_response")),
             new_with("FireResponse", EventResponse_new_with("default_burn_response")),
             new_with("Turn", TurnTaker_new("Melee", FALSE))>>)

\* make_flame
make_flame(e, start) ==
    add_components_to_entity(create_entity(e), Len(e.entities),
        <<new_with("Image", ImageHandle_new([id |-> 18, depth |-> 6])),
          new_with("Name", "Flame"),
          new_with("Position", start),
          new_with("Collision", "Hazard"),
          new_with("BumpResponse", EventResponse_new_with("spread_fire_response"))>>)

\* a door as make_door and close_door_response leave it
closed_door(e, entity_id) ==
    LET own_components == get_components_from_entity_id(e, entity_id)
    IN /\ \E c \in own_components : c.type = "Door"
       /\ \E c \in own_components :
             c.type = "BumpResponse" /\ c.data.response_function = "open_door_response"

(***************************************************************************)
(* Specification of doors: doors and a player are spawned, units bump into *)
(* entities, the close-doors command bumps doors with an empty payload,    *)
(* and fire events reach entities.  last records the target of the event   *)
(* and, for a bump, whether the target was a closed door and the own       *)
(* entity its BumpResponse had.                                            *)
(***************************************************************************)
SpawnDoor ==
    /\ Len(ecs.entities) < MaxEntities
    /\ ecs' \in make_door(ecs, Coord(0, 0))
    /\ last' = [kind |-> "make_door"]
    /\ UNCHANGED <<diff, mb>>

SpawnPlayer ==
    /\ Len(ecs.entities) < MaxEntities
    /\ ecs' \in make_player(ecs, Coord(1, 0))
    /\ last' = [kind |-> "make_player"]
    /\ UNCHANGED <<diff, mb>>

\* propagate_and_apply_event
PropagateAndApply(event, entity_id) ==
    /\ \E change_list \in propagate_event(event, entity_id, ecs) :
          ecs' \in apply_changes(ecs, change_list)
    /\ last' = [kind |-> event.event_type,
                target |-> entity_id,
                payload |-> {c.type : c \in event.payload},
                closed |-> closed_door(ecs, entity_id),
                own_entity |-> {c.data.own_entity :
                                   c \in {b \in get_components_from_entity_id(ecs, entity_id) :
                                             b.type = "BumpResponse"}}]
    /\ UNCHANGED <<diff, mb>>

\* a unit that has lost less than MaxBurnDamage bumps into an entity: the
\* payload is the unit's components
BumpByUnit ==
    \E unit, entity_id \in EntityIds(ecs) :
        /\ unit # entity_id
        /\ \E c \in get_components_from_entity_id(ecs, unit) : c.type = "Player"
        /\ \A c \in get_components_from_entity_id(ecs, unit) :
              c.type = "Health" => c.data.current > c.data.max - MaxBurnDamage
        /\ PropagateAndApply([event_type |-> "Bump",
                              attack |-> None,
                              payload |-> get_components_from_entity_id(ecs, unit)],
                             entity_id)

\* close_doors_command: a Bump without payload for a door
CloseDoorsCommand ==
    \E door \in EntityIds(ecs) :
        /\ \E c \in get_components_from_entity_id(ecs, door) : c.type = "Door"
        /\ PropagateAndApply([event_type |-> "Bump", attack |-> None, payload |-> {}], door)

\* a Fire event reaches an entity that has lost less than MaxBurnDamage
FireEvent ==
    \E entity_id \in EntityIds(ecs) :
        /\ \A c \in get_components_from_entity_id(ecs, entity_id) :
              c.type = "Health" => c.data.current > c.data.max - MaxBurnDamage
        /\ PropagateAndApply([event_type |-> "Fire", attack |-> None, payload |-> {}], entity_id)

InitDoor == ecs = ECS_new /\ last = Idle /\ diff = Idle /\ mb = Idle

NextDoor ==
    \/ SpawnDoor
    \/ SpawnPlayer
    \/ BumpByUnit
    \/ CloseDoorsCommand
    \/ FireEvent

SpecDoor == InitDoor /\ [][NextDoor]_vars

(***************************************************************************)
(* Map builder.  A box is a BoxExtends; the rooms of a graph are the       *)
(* sequence of its node weights, node index n being position n + 1 of the  *)
(* sequence; an edge is a record of its two endpoints and the rank of its  *)
(* insertion, the sequence of edges being the graph's edge vector.  A map  *)
(* is the set of coordinates holding a floor tile and the set holding a    *)
(* wall tile; a coordinate in neither holds no tile.  Random draws and the *)
(* iteration order of a HashSet are choices: an operator that draws        *)
(* returns the set of its possible results.                                *)
(***************************************************************************)
SizeX == 7
SizeY == 8
MaxDepth == 2

Range(seq) == {seq[i] : i \in DOMAIN seq}

\* the tiles of a box
tiles(box) ==
    {Coord(x, y) : x \in box.top_left.x..box.bottom_right.x,
                   y \in box.top_left.y..box.bottom_right.y}

cmp_max(a, b) == IF a >= b THEN a ELSE b

cmp_min(a, b) == IF a <= b THEN a ELSE b

\* Euclidian::position of a box whose corners are in order
position(box) ==
    LET delta_x == box.bottom_right.x - box.top_left.x
        delta_y == box.bottom_right.y - box.top_left.y
    IN Coord(delta_x \div 2 + box.top_left.x, delta_y \div 2 + box.top_left.y)

overlaps(self, other) ==
    LET self_top_right == Coord(self.bottom_right.x, self.top_left.y)
        self_bottom_left == Coord(self.top_left.x, self.bottom_right.y)
        other_top_right == Coord(other.bottom_right.x, other.top_left.y)
        other_bottom_left == Coord(other.top_left.x, other.bottom_right.y)
        self_overlaps_other ==
            \/ contains_point(self, other.top_left)
            \/ contains_point(self, other.bottom_right)
            \/ contains_point(self, other_top_right)
            \/ contains_point(self, other_bottom_left)
        other_overlaps_self ==
            \/ contains_point(other, self.top_left)
            \/ contains_point(other, self.bottom_right)
            \/ contains_point(other, self_top_right)
            \/ contains_point(other, self_bottom_left)
    IN self_overlaps_other \/ other_overlaps_self

get_inner_area(self) ==
    LET inner_delta_x == self.bottom_right.x - self.top_left.x - 1
        inner_delta_y == self.bottom_right.y - self.top_left.y - 1
    IN IF inner_delta_x <= 0 \/ inner_delta_y <= 0
       THEN 0
       ELSE inner_delta_x * inner_delta_y

\* mutant: the maximum size is not enforced
random_subbox_unbounded(area, min_side_length) ==
    LET x_range == area.bottom_right.x - position(area).x
        y_range == area.bottom_right.y - position(area).y
        shrinks(range) == 0..(range \div 2)
    IN {LET top_left == Coord(area.top_left.x + x1, area.top_left.y + y1)
        IN [top_left |-> top_left,
            bottom_right |->
                Coord(cmp_max(area.bottom_right.x - x2, min_side_length + top_left.x - 1),
                      cmp_max(area.bottom_right.y + y2, min_side_length + top_left.y - 1))] :
        x1 \in shrinks(x_range), y1 \in shrinks(y_range),
        x2 \in shrinks(x_range), y2 \in shrinks(y_range)}

\* the draws are clamped to [0, 0.5]: a shrink is any whole number from 0
\* to half of the range
random_subbox(area, min_side_length) ==
    LET x_range == area.bottom_right.x - position(area).x
        y_range == area.bottom_right.y - position(area).y
        shrinks(range) == 0..(range \div 2)
    IN {LET top_left == Coord(area.top_left.x + x1, area.top_left.y + y1)
            x == cmp_max(area.bottom_right.x - x2, min_side_length + top_left.x - 1)
            y == cmp_max(area.bottom_right.y + y2, min_side_length + top_left.y - 1)
        IN [top_left |-> top_left,
            bottom_right |-> Coord(cmp_min(x, area.bottom_right.x),
                                   cmp_min(y, area.bottom_right.y))] :
        x1 \in shrinks(x_range), y1 \in shrinks(y_range),
        x2 \in shrinks(x_range), y2 \in shrinks(y_range)}

\* mutant: the second box starts one past the split point
split_box_apart(area) ==
    LET horizontal_size == area.bottom_right.x - area.top_left.x + 1
        vertical_size == area.bottom_right.y - area.top_left.y + 1
        left == area.top_left.x
        top == area.top_left.y
        right == area.bottom_right.x
        bottom == area.bottom_right.y
        points(size) == ((35 * size) \div 100)..((65 * size) \div 100)
        vertical ==
            IF 35 * horizontal_size <= 50 * vertical_size
            THEN {<<Box(left, top, right, p + top), Box(left, p + top + 1, right, bottom)>> :
                     p \in points(vertical_size)}
            ELSE {}
        horizontal ==
            IF 65 * horizontal_size > 50 * vertical_size
            THEN {<<Box(left, top, p + left, bottom), Box(p + left + 1, top, right, bottom)>> :
                     p \in points(horizontal_size)}
            ELSE {}
    IN vertical \cup horizontal

\* the draws are clamped to [0.35, 0.65]: the axis is Horizontal when
\* draw * (horizontal_size / vertical_size) > 0.5, and the split point is
\* the whole part of draw * size
split_box(area) ==
    LET horizontal_size == area.bottom_right.x - area.top_left.x + 1
        vertical_size == area.bottom_right.y - area.top_left.y + 1
        left == area.top_left.x
        top == area.top_left.y
        right == area.bottom_right.x
        bottom == area.bottom_right.y
        points(size) == ((35 * size) \div 100)..((65 * size) \div 100)
        vertical ==
            IF 35 * horizontal_size <= 50 * vertical_size
            THEN {<<Box(left, top, right, p + top), Box(left, p + top, right, bottom)>> :
                     p \in points(vertical_size)}
            ELSE {}
        horizontal ==
            IF 65 * horizontal_size > 50 * vertical_size
            THEN {<<Box(left, top, p + left, bottom), Box(p + left, top, right, bottom)>> :
                     p \in points(horizontal_size)}
            ELSE {}
    IN vertical \cup horizontal

make_edge_vicinity_boxes(area, scan_distance, overlap) ==
    LET above == Box(area.top_left.x + overlap,
                     IF scan_distance <= area.top_left.y
                     THEN area.top_left.y - scan_distance ELSE 0,
                     area.bottom_right.x - overlap,
                     area.top_left.y)
        below == Box(area.top_left.x + overlap,
                     area.bottom_right.y,
                     area.bottom_right.x - overlap,
                     area.bottom_right.y + scan_distance)
        left == Box(IF scan_distance <= area.top_left.x
                    THEN area.top_left.x - scan_distance ELSE 0,
                    area.top_left.y + overlap,
                    area.top_left.x,
                    area.bottom_right.y - overlap)
        right == Box(area.bottom_right.x,
                     area.top_left.y + overlap,
                     area.bottom_right.x + scan_distance,
                     area.bottom_right.y - overlap)
    IN <<above, below, left, right>>

\* the boxes of the leaves a branch ends in, in the order of their node
\* indices
RECURSIVE split_branch(_, _, _)
split_branch(parent_box, current_depth, max_depth) ==
    IF current_depth >= max_depth
    THEN {<<parent_box>>}
    ELSE UNION {{a \o b : a \in split_branch(halves[1], current_depth + 1, max_depth),
                          b \in split_branch(halves[2], current_depth + 1, max_depth)} :
                   halves \in split_box(parent_box)}

\* the leaves of the tree, those of its nodes that have one neighbour: a
\* root that was not split has none
binary_space_partitioning(size_x, size_y, max_depth) ==
    IF max_depth = 0
    THEN {<<>>}
    ELSE split_branch(Box(0, 0, size_x - 1, size_y - 1), 0, max_depth)

prune_small_rooms(rooms, threshold) ==
    SelectSeq(rooms, LAMBDA room : get_inner_area(room) > threshold)

\* the rooms prune_small_rooms keeps of the rooms make_rooms_from_bsp makes:
\* whether a room is kept depends on that room only, so the room of a leaf
\* is pruned as soon as it is made
RECURSIVE make_rooms_from_bsp(_, _)
make_rooms_from_bsp(bsp_leaves, threshold) ==
    IF bsp_leaves = <<>>
    THEN {<<>>}
    ELSE {prune_small_rooms(<<room_box>>, threshold) \o rest :
             room_box \in random_subbox(Head(bsp_leaves), 3),
             rest \in make_rooms_from_bsp(Tail(bsp_leaves), threshold)}

\* Graph::neighbors of an undirected graph: the edges leaving the node,
\* the last added first, then the edges entering it, the last added first
neighbors(edges, a) ==
    LET newest_first(s) == SortSeq(s, LAMBDA e, f : e.rank > f.rank)
        outgoing == newest_first(SelectSeq(edges, LAMBDA e : e.source = a))
        incoming == newest_first(SelectSeq(edges, LAMBDA e : e.target = a /\ e.source # a))
    IN [i \in 1..Len(outgoing) |-> outgoing[i].target]
          \o [i \in 1..Len(incoming) |-> incoming[i].source]

\* the nodes joined to one of the given nodes by a chain of edges
RECURSIVE reachable(_, _)
reachable(edges, nodes) ==
    LET joined == nodes \cup {e.target : e \in {f \in Range(edges) : f.source \in nodes}}
                        \cup {e.source : e \in {f \in Range(edges) : f.target \in nodes}}
    IN IF joined = nodes THEN nodes ELSE reachable(edges, joined)

\* mutant: a graph that has nodes counts as one component
connected_components_nonempty(node_count, edges) ==
    IF node_count > 0 THEN 1 ELSE 0

\* mutant: a graph without nodes counts as one component
connected_components_or_none(node_count, edges) ==
    IF node_count = 0 THEN 1 ELSE Cardinality({reachable(edges, {n}) : n \in 1..node_count})

connected_components(node_count, edges) ==
    Cardinality({reachable(edges, {n}) : n \in 1..node_count})

make_connected_graph(rooms, max_scan_distance) ==
    LET \* unprocessed is the number of nodes the iterator has yielded
        RECURSIVE scan(_, _, _, _)
        scan(unprocessed, opened, closed, edges) ==
            IF opened = <<>> /\ unprocessed >= Len(rooms)
            THEN edges
            ELSE LET current_node == IF opened = <<>>
                                     THEN unprocessed + 1
                                     ELSE opened[Len(opened)]
                     yielded == IF opened = <<>> THEN unprocessed + 1 ELSE unprocessed
                     popped == IF opened = <<>>
                               THEN <<>>
                               ELSE SubSeq(opened, 1, Len(opened) - 1)
                     collision_boxes ==
                         make_edge_vicinity_boxes(rooms[current_node], max_scan_distance, 2)
                     hit(index) ==
                         /\ index > yielded
                         /\ \E c \in DOMAIN collision_boxes :
                               overlaps(rooms[index], collision_boxes[c])
                         /\ index \notin closed \cup {current_node}
                     nodes == [i \in 1..Len(rooms) |-> i]
                     found == SelectSeq(nodes, hit)
                 IN scan(yielded,
                         popped \o found,
                         closed \cup {current_node},
                         edges \o [i \in 1..Len(found) |->
                                      [source |-> current_node,
                                       target |-> found[i],
                                       rank |-> Len(edges) + i]])
    IN scan(0, <<>>, {}, <<>>)

prune_edges(node_count, graph, edge_threshold) ==
    LET degree(n) == Len(neighbors(graph, n))
        RECURSIVE visit(_, _)
        visit(room, pruned_graph) ==
            IF room > node_count
            THEN pruned_graph
            ELSE LET around == neighbors(pruned_graph, room)
                 IN IF ~(Len(around) >= edge_threshold)
                    THEN visit(room + 1, pruned_graph)
                    ELSE LET \* reduce keeps the earlier of two neighbours
                             \* unless the later has more edges
                             first_best == CHOOSE i \in DOMAIN around :
                                 /\ \A j \in DOMAIN around :
                                       degree(around[i]) >= degree(around[j])
                                 /\ \A j \in 1..(i - 1) :
                                       degree(around[j]) < degree(around[i])
                             best_connected_neighbor == around[first_best]
                             between(e) ==
                                 \/ e.source = room /\ e.target = best_connected_neighbor
                                 \/ e.target = room /\ e.source = best_connected_neighbor
                             leaving(e) == e.source = room
                             \* find_edge looks at the edges leaving room,
                             \* then at those entering it, last added first
                             edge_candidate == CHOOSE i \in DOMAIN pruned_graph :
                                 /\ between(pruned_graph[i])
                                 /\ \A j \in DOMAIN pruned_graph :
                                       (between(pruned_graph[j]) /\ j # i) =>
                                          \/ leaving(pruned_graph[i]) /\ ~leaving(pruned_graph[j])
                                          \/ /\ leaving(pruned_graph[i]) = leaving(pruned_graph[j])
                                             /\ pruned_graph[i].rank > pruned_graph[j].rank
                             last_edge == Len(pruned_graph)
                             \* remove_edge moves the last edge into the gap
                             removed == SubSeq([pruned_graph EXCEPT
                                                   ![edge_candidate] = pruned_graph[last_edge]],
                                               1, last_edge - 1)
                             newest == CHOOSE r \in {e.rank : e \in Range(pruned_graph)} :
                                           \A e \in Range(pruned_graph) : r >= e.rank
                         IN IF connected_components(node_count, removed) # 1
                            THEN visit(room + 1,
                                       Append(removed,
                                              [source |-> room,
                                               target |-> best_connected_neighbor,
                                               rank |-> newest + 1]))
                            ELSE visit(room + 1, removed)
    IN visit(1, graph)

create_empty == [floor |-> {}, wall |-> {}]

\* mutant: every tile is passable
is_tile_passable_everywhere(map, coord) == TRUE

\* GameMap::is_tile_passable
is_tile_passable(map, coord) == coord \in map.floor

draw_room(room_box, map) ==
    LET left == room_box.top_left.x
        top == room_box.top_left.y
        right == room_box.bottom_right.x
        bottom == room_box.bottom_right.y
        rows == {Coord(x, y) : x \in left..right, y \in {top, bottom}}
        columns == {Coord(x, y) : x \in left..right, y \in (top + 1)..(bottom - 1)}
        walls == rows \cup {c \in columns : c.x = left \/ c.x = right}
    IN [floor |-> (map.floor \ (rows \cup columns)) \cup (columns \ walls),
        wall |-> (map.wall \ (rows \cup columns)) \cup walls]

\* a step of the loop reads and writes tiles of its own row only
draw_vertical_corridor(start, end, map) ==
    LET low_y == IF start.y < end.y THEN start.y ELSE end.y
        high_y == IF start.y < end.y THEN end.y ELSE start.y
        centers == {Coord(start.x, y) : y \in low_y..high_y}
        empty == {c \in centers : c \notin map.floor \cup map.wall}
        sides == {Coord(c.x - 1, c.y) : c \in empty} \cup {Coord(c.x + 1, c.y) : c \in empty}
    IN [floor |-> (map.floor \cup centers) \ sides,
        wall |-> (map.wall \ centers) \cup sides]

\* a step of the loop reads and writes tiles of its own column only
draw_horizontal_corridor(start, end, map) ==
    LET low_x == IF start.x < end.x THEN start.x ELSE end.x
        high_x == IF start.x < end.x THEN end.x ELSE start.x
        centers == {Coord(x, start.y) : x \in low_x..high_x}
        empty == {c \in centers : c \notin map.floor \cup map.wall}
        sides == {Coord(c.x, c.y - 1) : c \in empty} \cup {Coord(c.x, c.y + 1) : c \in empty}
    IN [floor |-> (map.floor \cup centers) \ sides,
        wall |-> (map.wall \ centers) \cup sides]

\* the corridor runs along any one coordinate of the overlap, the first a
\* HashSet yields
draw_path_between_rooms(map, box_a, box_b) ==
    LET x_range_overlap == ((box_a.top_left.x + 1)..(box_a.bottom_right.x - 1))
                              \cap ((box_b.top_left.x + 1)..(box_b.bottom_right.x - 1))
        y_range_overlap == ((box_a.top_left.y + 1)..(box_a.bottom_right.y - 1))
                              \cap ((box_b.top_left.y + 1)..(box_b.bottom_right.y - 1))
    IN IF x_range_overlap # {}
       THEN {draw_vertical_corridor(Coord(corridor_x, position(box_a).y),
                                    Coord(corridor_x, position(box_b).y), map) :
                corridor_x \in x_range_overlap}
       ELSE IF y_range_overlap # {}
       THEN {draw_horizontal_corridor(Coord(position(box_a).x, corridor_y),
                                      Coord(position(box_b).x, corridor_y), map) :
                corridor_y \in y_range_overlap}
       ELSE {map}

draw_rooms_to_map(rooms, edges) ==
    LET RECURSIVE rooms_drawn(_)
        rooms_drawn(n) ==
            IF n = 0 THEN create_empty ELSE draw_room(rooms[n], rooms_drawn(n - 1))
        RECURSIVE corridors_drawn(_)
        corridors_drawn(n) ==
            IF n = 0
            THEN {rooms_drawn(Len(rooms))}
            ELSE UNION {draw_path_between_rooms(map,
                                                rooms[edges[n].source],
                                                rooms[edges[n].target]) :
                           map \in corridors_drawn(n - 1)}
    IN corridors_drawn(Len(edges))

\* mutant: the tile of the door is not looked at
check_door_conditions_any_tile(coord, map) ==
    \/ /\ ~is_tile_passable(map, CoordAdd(coord, Coord(0, 1)))
       /\ ~is_tile_passable(map, CoordAdd(coord, Coord(0, 0 - 1)))
    \/ /\ ~is_tile_passable(map, CoordAdd(coord, Coord(1, 0)))
       /\ ~is_tile_passable(map, CoordAdd(coord, Coord(0 - 1, 0)))

check_door_conditions(coord, map) ==
    IF ~is_tile_passable(map, coord)
    THEN FALSE
    ELSE IF /\ ~is_tile_passable(map, CoordAdd(coord, Coord(0, 1)))
            /\ ~is_tile_passable(map, CoordAdd(coord, Coord(0, 0 - 1)))
    THEN TRUE
    ELSE IF /\ ~is_tile_passable(map, CoordAdd(coord, Coord(1, 0)))
            /\ ~is_tile_passable(map, CoordAdd(coord, Coord(0 - 1, 0)))
    THEN TRUE
    ELSE FALSE

\* the door locations of every room, in the order they are pushed
add_doors_to_rooms(map, rooms) ==
    [node \in DOMAIN rooms |->
        LET left == rooms[node].top_left.x
            top == rooms[node].top_left.y
            right == rooms[node].bottom_right.x
            bottom == rooms[node].bottom_right.y
            horizontal_walls ==
                [i \in 1..(2 * cmp_max(right - left - 1, 0)) |->
                    Coord(left + (i + 1) \div 2, IF i % 2 = 1 THEN top ELSE bottom)]
            vertical_walls ==
                [i \in 1..(2 * cmp_max(bottom - top - 1, 0)) |->
                    Coord(IF i % 2 = 1 THEN left ELSE right, top + (i + 1) \div 2)]
        IN SelectSeq(horizontal_walls \o vertical_walls,
                     LAMBDA coord : check_door_conditions(coord, map))]

\* the loop of flood_fill_spawn_tables: the spawn table of every room (the
\* templates it was drawn from, or "Player", and whether it holds
\* "StairsDown") and the rooms in the order pop_back yields them.  The top
\* left corners of the rooms of a graph differ, so the sort has one first
\* element.
flood_fill(rooms, edges, lower_size_threshold, upper_size_threshold) ==
    LET before(a, b) == a.x < b.x \/ (a.x = b.x /\ a.y <= b.y)
        start_index == CHOOSE i \in DOMAIN rooms :
            \A j \in DOMAIN rooms : before(rooms[i].top_left, rooms[j].top_left)
        RECURSIVE fill(_, _, _, _)
        fill(fill_queue, visited, spawn_tables, processed) ==
            IF fill_queue = <<>>
            THEN [spawn_tables |-> spawn_tables, processed |-> processed]
            ELSE LET index == fill_queue[Len(fill_queue)]
                     seen == visited \cup {index}
                     unvisited_neighbors ==
                         SelectSeq(neighbors(edges, index), LAMBDA idx : idx \notin seen)
                     pushed == [i \in 1..Len(unvisited_neighbors) |->
                                   unvisited_neighbors[Len(unvisited_neighbors) + 1 - i]]
                                  \o SubSeq(fill_queue, 1, Len(fill_queue) - 1)
                     templates ==
                         IF index = start_index THEN "Player"
                         ELSE IF get_inner_area(rooms[index]) <= lower_size_threshold
                         THEN "SMALL_ROOMS"
                         ELSE IF get_inner_area(rooms[index]) >= upper_size_threshold
                         THEN "HUGE_ROOMS"
                         ELSE "GENERIC_ROOMS"
                 IN fill(pushed,
                         seen,
                         [spawn_tables EXCEPT
                             ![index] = Some([templates |-> templates,
                                              stairs_down |-> pushed = <<>>])],
                         Append(processed, index))
    IN fill(<<start_index>>, {}, [node \in DOMAIN rooms |-> None], <<>>)

\* mutant: every room gets the Player entry and the stairs
flood_fill_spawn_tables_all(rooms, edges, lower_size_threshold, upper_size_threshold) ==
    [node \in DOMAIN rooms |-> Some([templates |-> "Player", stairs_down |-> TRUE])]

\* MapBuilder::flood_fill_spawn_tables: the spawn tables of the rooms
flood_fill_spawn_tables(rooms, edges, lower_size_threshold, upper_size_threshold) ==
    flood_fill(rooms, edges, lower_size_threshold, upper_size_threshold).spawn_tables

(***************************************************************************)
(* Specification of generate_new: mb.stage is the position in the function.*)
(* Every pass of the loop partitions the map, makes and prunes rooms and   *)
(* connects them; the loop is left when the graph has one component, and   *)
(* the map is drawn, given spawn tables and doors, and returned.           *)
(***************************************************************************)
BinarySpacePartitioning ==
    /\ mb.stage = "loop"
    /\ \E bsp_leaves \in binary_space_partitioning(SizeX, SizeY, MaxDepth) :
          mb' = [stage |-> "partitioned", leaves |-> bsp_leaves]
    /\ UNCHANGED <<ecs, last, diff>>

MakeRooms ==
    /\ mb.stage = "partitioned"
    /\ \E rooms \in make_rooms_from_bsp(mb.leaves, 5) :
          mb' = [stage |-> "rooms", rooms |-> rooms]
    /\ UNCHANGED <<ecs, last, diff>>

MakeConnectedGraph ==
    /\ mb.stage = "rooms"
    /\ mb' = [stage |-> "graph",
              rooms |-> mb.rooms,
              edges |-> prune_edges(Len(mb.rooms), make_connected_graph(mb.rooms, 3), 4)]
    /\ UNCHANGED <<ecs, last, diff>>

LoopAgain ==
    /\ mb.stage = "graph"
    /\ connected_components(Len(mb.rooms), mb.edges) # 1
    /\ mb' = [stage |-> "loop", islands |-> connected_components(Len(mb.rooms), mb.edges)]
    /\ UNCHANGED <<ecs, last, diff>>

LoopBreak ==
    /\ mb.stage = "graph"
    /\ connected_components(Len(mb.rooms), mb.edges) = 1
    /\ mb' = [mb EXCEPT !.stage = "connected"]
    /\ UNCHANGED <<ecs, last, diff>>

DrawRoomsToMap ==
    /\ mb.stage = "connected"
    /\ \E map \in draw_rooms_to_map(mb.rooms, mb.edges) :
          mb' = [stage |-> "drawn", rooms |-> mb.rooms, edges |-> mb.edges, map |-> map]
    /\ UNCHANGED <<ecs, last, diff>>

FloodFillSpawnTables ==
    /\ mb.stage = "drawn"
    /\ mb' = [stage |-> "spawn_tables",
              rooms |-> mb.rooms,
              edges |-> mb.edges,
              map |-> mb.map,
              spawn_table |-> flood_fill_spawn_tables(mb.rooms, mb.edges, 8, 25)]
    /\ UNCHANGED <<ecs, last, diff>>

AddDoorsToRooms ==
    /\ mb.stage = "spawn_tables"
    /\ mb' = [stage |-> "returned",
              rooms |-> mb.rooms,
              edges |-> mb.edges,
              map |-> mb.map,
              spawn_table |-> mb.spawn_table,
              door_locations |-> add_doors_to_rooms(mb.map, mb.rooms)]
    /\ UNCHANGED <<ecs, last, diff>>

InitMap == ecs = Idle /\ last = Idle /\ diff = Idle /\ mb = [stage |-> "loop"]

NextMap ==
    \/ BinarySpacePartitioning
    \/ MakeRooms
    \/ MakeConnectedGraph
    \/ LoopAgain
    \/ LoopBreak
    \/ DrawRoomsToMap
    \/ FloodFillSpawnTables
    \/ AddDoorsToRooms

SpecMap == InitMap /\ [][NextMap]_vars

(***************************************************************************)
(* Specification of the box functions: a box with its corners in order is  *)
(* shrunk by random_subbox or split by split_box, with every draw the      *)
(* clamps allow.                                                           *)
(***************************************************************************)
RandomSubbox ==
    /\ mb.stage = "box"
    /\ \E room_box \in random_subbox(mb.area, 3) :
          mb' = [stage |-> "subbox", area |-> mb.area, room_box |-> room_box]
    /\ UNCHANGED <<ecs, last, diff>>

SplitBox ==
    /\ mb.stage = "box"
    /\ \E halves \in split_box(mb.area) :
          mb' = [stage |-> "split", area |-> mb.area, a |-> halves[1], b |-> halves[2]]
    /\ UNCHANGED <<ecs, last, diff>>

InitBox ==
    /\ ecs = Idle /\ last = Idle /\ diff = Idle
    /\ \E left, right \in 0..(SizeX - 1) :
       \E top, bottom \in 0..(SizeY - 1) :
          /\ left <= right
          /\ top <= bottom
          /\ mb = [stage |-> "box", area |-> Box(left, top, right, bottom)]

NextBox ==
    \/ RandomSubbox
    \/ SplitBox

SpecBox == InitBox /\ [][NextBox]_vars

(***************************************************************************)
(* Specification of overlaps: it is called once for two boxes with their   *)
(* corners in order on a grid of OverlapSize x OverlapSize tiles, and for  *)
(* the same boxes the other way round.                                     *)
(***************************************************************************)
OverlapSize == 3

OverlapBoxes ==
    UNION {{Box(left, top, right, bottom) : right \in left..(OverlapSize - 1),
                                            bottom \in top..(OverlapSize - 1)}
           : left \in 0..(OverlapSize - 1), top \in 0..(OverlapSize - 1)}

InitOverlap ==
    /\ ecs = Idle /\ last = Idle /\ diff = Idle
    /\ \E a, b \in OverlapBoxes : mb = [stage |-> "boxes", a |-> a, b |-> b]

Overlaps ==
    /\ mb.stage = "boxes"
    /\ mb' = [stage |-> "overlaps", a |-> mb.a, b |-> mb.b,
              result |-> overlaps(mb.a, mb.b), reverse |-> overlaps(mb.b, mb.a)]
    /\ UNCHANGED <<ecs, last, diff>>

NextOverlap == Overlaps

SpecOverlap == InitOverlap /\ [][NextOverlap]_vars

(***************************************************************************)
(* Pathfinding (src/utils/pathfinding.rs).  A node is a coordinate with    *)
(* its NodeData; open and closed are the sets of their nodes.  The         *)
(* priority queue pops any one of the nodes that compare least.            *)
(***************************************************************************)
PathSize == 3
MaxWalls == 2

CoordSub(a, b) == Coord(a.x - b.x, a.y - b.y)

\* EntityManager::get_entities_at_position
get_entities_at_position(e, coord) ==
    {id \in e.rooms[get_room_at_coordinate(coord)] :
        /\ has_entity(e, id)
        /\ \E c \in get_components_from_entity_id(e, id) :
              c.type = "Position" /\ c.data = coord}

\* the entities at the coordinate that hold the component with the data
\* (get_blocking_entity, get_hazard_entity, get_los_blocking_entity); the
\* code takes the one that the HashSet of the room yields first
get_entity_holding(e, coord, comp_type, data) ==
    LET found == {id \in get_entities_at_position(e, coord) :
                     \E c \in get_components_from_entity_id(e, id) :
                        c.type = comp_type /\ c.data = data}
    IN IF found = {} THEN {None} ELSE {Some(id) : id \in found}

get_blocking_entity(e, coord) == get_entity_holding(e, coord, "Collision", "Blocking")

entity_id_has_component(e, entity_id, comp_type) ==
    \E c \in get_components_from_entity_id(e, entity_id) : c.type = comp_type

\* a heuristic is the closure |_| 0 of MonsterTurns or the closure
\* astar_heuristic_factory makes for a position
call_heuristic(heuristic, coordinate) ==
    IF heuristic.kind = "zero"
    THEN 0
    ELSE LET dx == coordinate.x - heuristic.pl_pos.x
             dy == coordinate.y - heuristic.pl_pos.y
         IN (IF dx < 0 THEN 0 - dx ELSE dx) + (IF dy < 0 THEN 0 - dy ELSE dy)

\* mutant: the node that compares greatest is popped first
get_comparable_reversed(node) == 0 - (node.distance + node.h_value)

\* NodeData::get_comparable
get_comparable(node) == node.distance + node.h_value

\* the neighbours get_passable keeps, for one of the blocking entities the
\* store can yield at each of them
get_passable(directions, visited_coord, destination, ignore_units, ignore_doors, map, e) ==
    LET coords == [i \in DOMAIN directions |-> CoordAdd(visited_coord, directions[i])]
        keeps(coord, blocking_entity) ==
            \/ /\ is_tile_passable(map, coord)
               /\ \/ blocking_entity = None
                  \/ ignore_units
                        /\ entity_id_has_component(e, Unwrap(blocking_entity), "Monster")
                  \/ ignore_doors
                        /\ entity_id_has_component(e, Unwrap(blocking_entity), "Door")
            \/ coord = destination
        kept == {i \in DOMAIN coords :
                    \E blocking_entity \in get_blocking_entity(e, coords[i]) :
                        keeps(coords[i], blocking_entity)}
    IN SelectSeq(coords, LAMBDA coord : \E i \in kept : coords[i] = coord)

\* the pairs of last node and closed set the loop can end with
fill_path_map(open, closed, last_node, directions, destination, heuristic, return_early, ignore_units, ignore_doors, ignore_hazards, map, e) ==
    LET hazard_cost == IF ignore_hazards THEN 1 ELSE 3
        has_hazard(c) == get_entity_holding(e, c, "Collision", "Hazard") # {None}
        visit(search, visited) ==
            LET closed1 == search.closed \cup {visited}
                open1 == search.open \ {visited}
                passable_neighbors ==
                    get_passable(directions, visited.coord, destination,
                                 ignore_units, ignore_doors, map, e)
                fresh == {c \in Range(passable_neighbors) :
                             \A n \in closed1 : n.coord # c}
                through(c) == visited.distance
                                 + (IF has_hazard(c) THEN hazard_cost ELSE 1)
                reached(c) == [coord |-> c,
                               distance |-> through(c),
                               h_value |-> call_heuristic(heuristic, c),
                               parent |-> Some(visited.coord)]
                kept == {n \in open1 : n.coord \notin fresh \/ n.distance <= through(n.coord)}
                pushed == {reached(c) : c \in {f \in fresh : \A n \in kept : n.coord # f}}
            IN IF visited.coord = destination /\ return_early
               THEN [open |-> open1, closed |-> closed1, last_node |-> visited,
                     stopped |-> TRUE]
               ELSE [open |-> kept \cup pushed, closed |-> closed1, last_node |-> visited,
                     stopped |-> FALSE]
        pops(search) ==
            {visit(search, visited) :
                visited \in {n \in search.open :
                                \A o \in search.open :
                                    get_comparable(n) <= get_comparable(o)}}
        RECURSIVE loop(_)
        loop(searches) ==
            LET ended == {search \in searches : search.stopped \/ search.open = {}}
            IN IF ended = searches
               THEN searches
               ELSE ended \cup loop(UNION {pops(search) : search \in searches \ ended})
    IN {[last_node |-> search.last_node, closed |-> search.closed] :
           search \in loop({[open |-> open, closed |-> closed,
                             last_node |-> last_node, stopped |-> FALSE]})}

\* the grids calculate_pathing_grid can return: for every closed node with
\* a parent, the step to its parent
calculate_pathing_grid(origin, destination, map, e, heuristic, ignore_units, ignore_doors, ignore_hazards) ==
    LET directions == <<Coord(0, 1), Coord(0, 0 - 1), Coord(1, 0), Coord(0 - 1, 0)>>
        first == [coord |-> origin, distance |-> 0, h_value |-> call_heuristic(heuristic, origin),
                  parent |-> None]
        filled == fill_path_map({first}, {}, first, directions, destination, heuristic,
                                FALSE, ignore_units, ignore_doors, ignore_hazards, map, e)
    IN {[coord \in {n.coord : n \in {m \in result.closed : m.parent # None}} |->
            LET node == CHOOSE n \in result.closed : n.coord = coord
            IN CoordSub(Unwrap(node.parent), coord)] :
          result \in filled}

(***************************************************************************)
(* Specification of the navigation grids: on a floor with some walls, a    *)
(* player and possibly a door or a monster, MonsterTurns computes its two  *)
(* grids from the position of the player.                                  *)
(***************************************************************************)
\* a floor of PathSize columns and three rows
PathTiles == {Coord(x, y) : x \in 0..(PathSize - 1), y \in 0..2}

\* the player stands in a corner or inside of the floor
PathOrigins == {Coord(0, 0), Coord(1, 1)}

\* the entities next to the player: none, a closed door, or a monster
PathBlockers ==
    {<<>>,
     <<MakeEntity(<<new_with("Position", Coord(1, 0)),
                    new_with("Collision", "Blocking"),
                    new_with("Door", Unit)>>)>>,
     <<MakeEntity(<<new_with("Position", Coord(1, 1)),
                    new_with("Collision", "Blocking"),
                    new_with("Monster", Unit)>>)>>}

InitPath ==
    /\ last = Idle /\ diff = Idle
    /\ \E walls \in SUBSET PathTiles :
       \E origin \in PathOrigins \ walls :
       \E blockers \in PathBlockers :
          /\ Cardinality(walls) <= MaxWalls
          /\ ecs \in apply_changes(ECS_new,
                        <<MakeEntity(<<new_with("Player", Unit),
                                       new_with("Position", origin),
                                       new_with("Collision", "Blocking")>>)>>
                           \o blockers)
          /\ mb = [stage |-> "floor",
                   map |-> [floor |-> PathTiles \ walls, wall |-> walls],
                   origin |-> origin]

\* MonsterTurns::run_pre_loop: the hazard-ignoring and the safe grid
RunPreLoop ==
    /\ mb.stage = "floor"
    /\ \E ignore_hazards \in BOOLEAN :
       \E grid \in calculate_pathing_grid(mb.origin, mb.origin, mb.map, ecs,
                                          [kind |-> "zero"], TRUE, FALSE, ignore_hazards) :
          mb' = [stage |-> "nav_grid", map |-> mb.map, origin |-> mb.origin,
                 nav_grid |-> grid]
    /\ UNCHANGED <<ecs, last, diff>>

SpecPath == InitPath /\ [][RunPreLoop]_vars

(***************************************************************************)
(* Line of sight (src/utils/los.rs).                                       *)
(***************************************************************************)
linetrace(origin, destination) ==
    LET sx == IF destination.x - origin.x > 0 THEN 1 ELSE 0 - 1
        sy == IF destination.y - origin.y > 0 THEN 1 ELSE 0 - 1
        abs(n) == IF n < 0 THEN 0 - n ELSE n
        dx == abs(destination.x - origin.x)
        dy == 0 - abs(destination.y - origin.y)
        RECURSIVE trace(_, _, _)
        trace(current_point, error, results) ==
            LET pushed == Append(results, current_point)
                error2 == 2 * error
                along_x == error2 >= dy
                along_y == error2 <= dx
                x == IF along_x THEN current_point.x + sx ELSE current_point.x
                y == IF along_y THEN current_point.y + sy ELSE current_point.y
            IN IF current_point = destination THEN pushed
               ELSE IF along_x /\ current_point.x = destination.x THEN pushed
               ELSE IF along_y /\ current_point.y = destination.y THEN pushed
               ELSE trace(Coord(x, y),
                          error + (IF along_x THEN dy ELSE 0) + (IF along_y THEN dx ELSE 0),
                          pushed)
    IN trace(origin, dx + dy, <<>>)

\* mutant: the two ends of the line are looked at as well
line_of_sight_whole_line(origin, destination, map, e) ==
    LET full_line == linetrace(origin, destination)
    IN {[kind |-> "returned",
         value |-> ~(\E i \in DOMAIN full_line :
                       \/ full_line[i] \in map.wall
                       \/ get_entity_holding(e, full_line[i], "LineOfSight", "Blocking") # {None})]}

\* the outcomes of line_of_sight: the boolean it returns, or the panic of
\* the slice [1..len - 1] when the line has one point
line_of_sight(origin, destination, map, e) ==
    LET full_line == linetrace(origin, destination)
        line_between == SubSeq(full_line, 2, Len(full_line) - 1)
        is_tile_los_blocking(point) == point \in map.wall
        is_los_blocked_by_entity(point) ==
            get_entity_holding(e, point, "LineOfSight", "Blocking") # {None}
        los_block_on_line ==
            \E i \in DOMAIN line_between :
                is_tile_los_blocking(line_between[i]) \/ is_los_blocked_by_entity(line_between[i])
    IN IF Len(full_line) < 2
       THEN {[kind |-> "panic"]}
       ELSE {[kind |-> "returned", value |-> ~los_block_on_line]}

(***************************************************************************)
(* Specification of line of sight: on a floor of PathSize + 1 columns and  *)
(* three rows with some walls and an entity that blocks the line of sight, *)
(* wholly or partially, a line is traced from one tile to another.         *)
(***************************************************************************)
InitLos ==
    LET los_tiles == {Coord(x, y) : x \in 0..PathSize, y \in 0..2}
        entity(point, blocking) ==
            MakeEntity(<<new_with("Position", point), new_with("LineOfSight", blocking)>>)
    IN /\ last = Idle /\ diff = Idle
       /\ \E walls \in SUBSET los_tiles :
          \E origin \in {Coord(0, 0), Coord(1, 1)} :
          \E destination \in los_tiles :
          \E entities \in {<<>>,
                           <<entity(Coord(1, 1), "Blocking")>>,
                           <<entity(Coord(2, 1), "Blocking"), entity(Coord(1, 0), "Partial")>>,
                           <<entity(Coord(1, 1), "Partial"), entity(Coord(1, 1), "None")>>} :
             /\ Cardinality(walls) <= MaxWalls
             /\ ecs \in apply_changes(ECS_new, entities)
             /\ mb = [stage |-> "line",
                      map |-> [floor |-> los_tiles \ walls, wall |-> walls],
                      origin |-> origin,
                      destination |-> destination]

LineOfSight ==
    /\ mb.stage = "line"
    /\ \E seen \in line_of_sight(mb.origin, mb.destination, mb.map, ecs) :
          mb' = [mb EXCEPT !.stage = "line_of_sight"] @@ [seen |-> seen]
    /\ UNCHANGED <<ecs, last, diff>>

SpecLos == InitLos /\ [][LineOfSight]_vars

(***************************************************************************)
(* Turn engine (src/game/core.rs, src/ecs/system.rs, src/game/system.rs,   *)
(* src/game/components/behavior.rs).                                       *)
(* The game g is the record of everything a Game holds besides the store:  *)
(* the map (floor, wall, rooms), the explored tiles, the list of turn      *)
(* systems, the open_doors of Exploration and the two grids of             *)
(* MonsterTurns.  No spawner gives a monster the behaviours of an archer,  *)
(* so select_action is that of the melee, fast and slow monsters.          *)
(***************************************************************************)
TurnWidth == 7          \* floor tiles of the corridor
MaxCommands == 1        \* commands that end the turn or raise the level

\* UP, DOWN, LEFT, RIGHT
Directions == <<Coord(0, 0 - 1), Coord(0, 1), Coord(1, 0), Coord(0 - 1, 0)>>

\* the orders in which a HashSet can yield its elements
orders(S) ==
    {s \in [1..Cardinality(S) -> S] : \A i, j \in DOMAIN s : i # j => s[i] # s[j]}

\* calculate_melee_attack / calculate_ranged_attack: the report of an
\* attack, its damage the set of values get_damage can roll
calculate_attack(attack, attributes, range) ==
    LET ceil_div(n, d) == (n + d - 1) \div d
        stats == Unwrap(attributes)
        bonus_hundredths ==
            16 * (stats.strength - 5) * (attack.damage_base + attack.damage_spread)
            + 56 * (stats.dexterity - 5) * attack.damage_base
        bonus_damage ==
            IF IsSome(attributes)
            THEN <<ceil_div(bonus_hundredths, 100), ceil_div(125 * bonus_hundredths, 10000)>>
            ELSE <<0, 0>>
        raw_damage == {attack.damage_base + bonus_damage[1] + rand_factor :
                          rand_factor \in 0..(attack.damage_spread
                                              + (bonus_damage[2] - bonus_damage[1]))}
        critical == IF IsSome(attributes) THEN {2, 3} ELSE {2}
    IN [damage |-> {(raw * multiplier) \div 2 : raw \in raw_damage, multiplier \in critical},
        range |-> range]

\* make_unit_report: None without a Position or a Combat
make_unit_report(unit_components) ==
    UNION {UNION {
        IF ~IsSome(maybe_position) \/ ~IsSome(combat) THEN {None}
        ELSE {LET attributes == IF IsSome(stats) THEN Some(Unwrap(stats).data) ELSE None
                  melee == Unwrap(combat).data.melee
                  ranged == Unwrap(combat).data.ranged
              IN Some([position |-> Unwrap(maybe_position),
                       stats |-> stats,
                       bump |-> [event_type |-> "Bump",
                                 attack |-> IF IsSome(melee)
                                            THEN Some(calculate_attack(Unwrap(melee), attributes, None))
                                            ELSE None,
                                 payload |-> unit_components],
                       shoot |-> [event_type |-> "Shot",
                                  attack |-> IF IsSome(ranged)
                                             THEN Some(calculate_attack(Unwrap(ranged), attributes,
                                                                        Some(Unwrap(ranged).max_range)))
                                             ELSE None,
                                  payload |-> unit_components]])
              : stats \in take_component_from_refs("Attributes", unit_components)}
        : combat \in take_component_from_refs("Combat", unit_components)}
        : maybe_position \in take_component_from_refs("Position", unit_components)}

\* ECS::get_player_report
get_player_report(e) ==
    IF has_entity(e, e.player_id)
    THEN make_unit_report(get_components_from_entity_id(e, e.player_id))
    ELSE {None}

\* Coordinate::distance, squared
distance_squared(a, b) == (a.x - b.x) * (a.x - b.x) + (a.y - b.y) * (a.y - b.y)

\* Game::propagate_and_apply_event for a list of entities in turn
RECURSIVE propagate_and_apply_events(_, _, _)
propagate_and_apply_events(e, event, entities) ==
    IF entities = <<>> THEN {e}
    ELSE UNION {UNION {propagate_and_apply_events(e1, event, Tail(entities))
                       : e1 \in apply_changes(e, change_list)}
                : change_list \in propagate_event(event, Head(entities), e)}

\* Game::move_player
move_player(e, direction) ==
    UNION {IF IsSome(report)
           THEN apply_change(e, Change(make_change(Unwrap(report).position, direction)))
           ELSE {e}
           : report \in get_player_report(e)}

\* Health::get_health_reset_diff: the change that refills the health
get_health_reset_diff(health) == Health(health.max - health.current, 0)

\* the effect functions of the spells (src/game/spelldefinitions.rs) applied
\* to the entities that match the query of the spell, a Player
spell_effect(spell, e) ==
    LET matching == {id \in EntityIds(e) :
                        \E c \in get_components_from_entity_id(e, id) : c.type = "Player"}
        entities == [i \in 1..Cardinality(matching) |->
                        CHOOSE id \in matching : Cardinality({o \in matching : o < id}) = i - 1]
        monsters_in_room(point) ==
            {id \in e.rooms[get_room_at_coordinate(point)] :
                \E c \in get_components_from_entity_id(e, id) : c.type = "Monster"}
        component_of(id, comp_type) ==
            take_component_from_refs(comp_type, get_components_from_entity_id(e, id))
        effect_on(id) ==
            IF spell.effect = "invisible"
            THEN {<<MakeComponent(new_with("DurationEffect", [duration |-> 8, effect |-> "Invisible"]),
                                  new_from_entity(id))>>}
            ELSE IF spell.effect = "levitate"
            THEN {<<MakeComponent(new_with("DurationEffect", [duration |-> 16, effect |-> "Levitate"]),
                                  new_from_entity(id))>>}
            ELSE IF spell.effect = "mass_flame"
            THEN propagate_event([event_type |-> "Fire", attack |-> None, payload |-> {}], id, e)
            ELSE IF spell.effect = "brittle"
            THEN {IF IsSome(melee_response) /\ IsSome(ranged_response) /\ IsSome(name)
                  THEN LET double_damage ==
                               EventResponse(Unwrap(melee_response).data.own_entity,
                                             "take_double_damage_response")
                       IN <<Change(make_change(Unwrap(melee_response), double_damage)),
                            Change(make_change(Unwrap(ranged_response), double_damage))>>
                  ELSE <<>>
                  : melee_response \in component_of(id, "BumpResponse"),
                    ranged_response \in component_of(id, "ShotResponse"),
                    name \in component_of(id, "Name")}
            ELSE IF spell.effect = "stoneskin"
            THEN {IF IsSome(melee_response) /\ IsSome(ranged_response)
                  THEN LET half_damage == EventResponse_new_with("take_half_damage_response")
                       IN <<Change(make_change(Unwrap(melee_response), half_damage)),
                            Change(make_change(Unwrap(ranged_response), half_damage)),
                            MakeComponent(new_with("DurationEffect",
                                                   [duration |-> 8, effect |-> "Stoneskin"]),
                                          new_from_entity(id))>>
                  ELSE <<>>
                  : melee_response \in component_of(id, "BumpResponse"),
                    ranged_response \in component_of(id, "ShotResponse")}
            ELSE IF spell.effect = "heal"
            THEN {IF IsSome(health)
                  THEN <<Change(make_change(Unwrap(health),
                                            get_health_reset_diff(Unwrap(health).data)))>>
                  ELSE <<>>
                  : health \in component_of(id, "Health")}
            ELSE {<<>>}
        RECURSIVE flat_map(_)
        flat_map(ids) ==
            IF ids = <<>> THEN {<<>>}
            ELSE {first \o rest : first \in effect_on(Head(ids)), rest \in flat_map(Tail(ids))}
    IN IF spell.effect \in {"invisible", "levitate", "stoneskin", "heal"}
       THEN flat_map(entities)
       ELSE IF spell.effect \in {"mass_flame", "brittle"}
       THEN UNION {IF IsSome(index_pos)
                   THEN UNION {flat_map(ids)
                               : ids \in orders(monsters_in_room(Unwrap(index_pos).data))}
                   ELSE {<<>>}
                   : index_pos \in component_of(entities[1], "Position")}
       ELSE {<<>>}

\* GameMap::explore_room: the tiles of the rooms that contain the point
explore_room(g, coord) ==
    g.explored \cup UNION {tiles(g.map.rooms[i]) : i \in {n \in DOMAIN g.map.rooms :
                                                          contains_point(g.map.rooms[n], coord)}}

\* GameMap::explore_flood_fill: the fill stops at walls and closed doors
explore_flood_fill(explored, coord, map, e) ==
    LET adjacent == <<Coord(1, 0), Coord(0 - 1, 0), Coord(0, 1), Coord(0, 0 - 1)>>
        unvisited_neighbors(seen, point) ==
            SelectSeq([i \in 1..4 |-> CoordAdd(point, adjacent[i])], LAMBDA n : n \notin seen)
        push_front(queue, points) ==
            [i \in 1..Len(points) |-> points[Len(points) + 1 - i]] \o queue
        is_blocked_by_door(point) ==
            \E blocking \in get_blocking_entity(e, point) :
                /\ IsSome(blocking)
                /\ \E c \in get_components_from_entity_id(e, Unwrap(blocking)) : c.type = "Door"
        RECURSIVE corners(_, _)
        corners(seen, points) ==
            IF points = <<>> THEN seen
            ELSE LET visited_neighbors ==
                         Cardinality({i \in 1..4 : CoordAdd(Head(points), adjacent[i]) \in seen})
                 IN corners(IF visited_neighbors >= 2 /\ Head(points) \in map.wall
                            THEN seen \cup {Head(points)} ELSE seen,
                            Tail(points))
        RECURSIVE fill(_, _)
        fill(fill_queue, seen) ==
            IF fill_queue = <<>> THEN seen
            ELSE LET current == fill_queue[Len(fill_queue)]
                     popped == SubSeq(fill_queue, 1, Len(fill_queue) - 1)
                     inserted == seen \cup {current}
                     unvisited == unvisited_neighbors(inserted, current)
                 IN IF is_blocked_by_door(current) \/ current \in map.wall
                    THEN fill(popped, corners(inserted, unvisited))
                    ELSE fill(push_front(popped, unvisited), inserted)
    IN fill(push_front(<<coord>>, unvisited_neighbors(explored, coord)), explored)

\* System::get_requirements: the required component types
get_requirements(system) ==
    IF system = "Exploration" THEN {"Door", "Collision"}
    ELSE IF system \in {"Fire", "Acid", "Stoneskin", "Duration"} THEN {"DurationEffect"}
    ELSE IF system = "UnitCull" THEN {"Health"}
    ELSE IF system = "PlayerCheck" THEN {"Player"}
    ELSE {"Name", "Image", "Position", "Turn"}

\* ECS::get_entities_matching_query: the entities of the table, in table
\* order, that hold a component of every required type
get_entities_matching_query(e, required) ==
    LET matching == {id \in EntityIds(e) :
                        required \subseteq {c.type : c \in get_components_from_entity_id(e, id)}}
    IN [i \in 1..Cardinality(matching) |->
           CHOOSE id \in matching : Cardinality({o \in matching : o < id}) = i - 1]

\* System::run_pre_loop: MonsterTurns computes its two grids towards the
\* player
run_pre_loop(system, e, g) ==
    IF system # "MonsterTurns" THEN {g}
    ELSE UNION {
        IF ~IsSome(player_report) THEN {g}
        ELSE LET player_position == Unwrap(player_report).position.data
                 grids(ignore_hazards) ==
                     calculate_pathing_grid(player_position, player_position, g.map, e,
                                            [kind |-> "zero"], TRUE, FALSE, ignore_hazards)
             IN {[g EXCEPT !.hazard_nav_grid = hazard, !.safe_nav_grid = safe]
                 : hazard \in grids(TRUE), safe \in grids(FALSE)}
        : player_report \in get_player_report(e)}

\* ECS::get_component_from_entity_id: the component Iterator::find meets
\* first among the components of the entity
get_component_from_entity_id(e, entity_id, comp_type) ==
    take_component_from_refs(comp_type, get_components_from_entity_id(e, entity_id))

\* mutant: a sleeping monster is woken one turn late
handle_sleep_late(state) ==
    IF state.kind = "Sleeping" /\ state.counter = 0 THEN Some("Awake")
    ELSE IF state.kind = "Sleeping" THEN Some("Sleep")
    ELSE None

\* handle_sleep: the action a sleeping monster takes, None when it is Alert
handle_sleep(state) ==
    IF state.kind = "Sleeping" /\ state.counter = 1 THEN Some("Awake")
    ELSE IF state.kind = "Sleeping" THEN Some("Sleep")
    ELSE None

\* Behavior::select_action of MeleeBehavior, FastMeleeBehavior and
\* SlowBehavior: the actions selected with the value select_action leaves
\* in the Cell of SlowBehavior, or the panic of line_of_sight
select_action(behavior, self_report, player_report, state, map, e) ==
    LET my_pos == self_report.position.data
        pl_pos == player_report.position.data
        distance == distance_squared(my_pos, pl_pos)
        selects(actions) ==
            [kind |-> "selected", actions |-> actions,
             acted_last_turn |-> behavior.acted_last_turn]
        awake ==
            IF IsSome(handle_sleep(state)) THEN selects(<<Unwrap(handle_sleep(state))>>)
            ELSE IF behavior.kind = "Melee"
            THEN IF distance > 1 THEN selects(<<"Approach">>) ELSE selects(<<"Attack">>)
            ELSE IF behavior.kind = "FastMelee"
            THEN IF distance > 4 THEN selects(<<"Approach", "Approach">>)
                 ELSE IF distance > 1 THEN selects(<<"Approach", "Attack">>)
                 ELSE selects(<<"Attack", "Wander">>)
            ELSE IF behavior.acted_last_turn
            THEN [selects(<<"Sleep">>) EXCEPT !.acted_last_turn = FALSE]
            ELSE IF distance > 1 THEN selects(<<"Approach">>)
            ELSE [selects(<<"Attack">>) EXCEPT !.acted_last_turn = TRUE]
    IN UNION {
        IF IsSome(effect) /\ Unwrap(effect).data.effect = "Invisible"
        THEN {IF sight.kind = "panic" THEN [kind |-> "panic"]
              ELSE IF sight.value THEN selects(<<"Wander">>)
              ELSE selects(<<"Sleep">>)
              : sight \in line_of_sight(my_pos, pl_pos, map, e)}
        ELSE {awake}
        : effect \in get_component_from_entity_id(e, e.player_id, "DurationEffect")}

\* mutant: the destination of the approach is not checked for a blocking
\* entity
is_blocked_by_entity_never(e, coord) == FALSE

\* ECS::is_blocked_by_entity
is_blocked_by_entity(e, coord) == get_blocking_entity(e, coord) # {None}

\* ECS::get_all_entities_in_tile, in the orders the room can yield them
get_all_entities_in_tile(e, coord) == orders(get_entities_at_position(e, coord))

\* the deltas of a bump propagated to each entity of the list
RECURSIVE propagate_to_all(_, _, _)
propagate_to_all(event, entities, e) ==
    IF entities = <<>> THEN {<<>>}
    ELSE {first \o rest : first \in propagate_event(event, Head(entities), e),
                          rest \in propagate_to_all(event, Tail(entities), e)}

\* mutant: the monster steps against the direction of the grid
approach_player_reversed(my_pos, my_bump, e, grid) ==
    IF my_pos.data \in DOMAIN grid
    THEN {[deltas |-> <<Change(make_change(my_pos, CoordSub(Coord(0, 0), grid[my_pos.data])))>>,
           dir |-> CoordSub(Coord(0, 0), grid[my_pos.data])]}
    ELSE {[deltas |-> <<>>, dir |-> Coord(0, 0)]}

\* approach_player: the deltas and the direction moved in
approach_player(my_pos, my_bump, e, grid) ==
    IF my_pos.data \in DOMAIN grid
       /\ ~is_blocked_by_entity(e, CoordAdd(my_pos.data, grid[my_pos.data]))
    THEN LET dir == grid[my_pos.data]
         IN {[deltas |-> Append(deltas, Change(make_change(my_pos, dir))), dir |-> dir]
             : deltas \in UNION {propagate_to_all(my_bump, entities, e)
                                 : entities \in get_all_entities_in_tile(
                                                    e, CoordAdd(my_pos.data, dir))}}
    ELSE {[deltas |-> <<>>, dir |-> Coord(0, 0)]}

\* wander: a step in a random direction
wander(my_pos, e, map) ==
    {IF /\ ~is_blocked_by_entity(e, CoordAdd(my_pos.data, Directions[i]))
        /\ is_tile_passable(map, CoordAdd(my_pos.data, Directions[i]))
     THEN [deltas |-> <<Change(make_change(my_pos, Directions[i]))>>, dir |-> Directions[i]]
     ELSE [deltas |-> <<>>, dir |-> Coord(0, 0)]
     : i \in DOMAIN Directions}

\* wake_up: the Turn of the owner of the position becomes Alert
wake_up(my_pos, e) ==
    IF ~IsSome(get_entity_from_component(e, my_pos.id)) THEN {[kind |-> "panic"]}
    ELSE {IF IsSome(data)
          THEN [kind |-> "returned",
                deltas |-> <<Change(make_change(Unwrap(data),
                                        [Unwrap(data).data EXCEPT !.state = Alert]))>>]
          ELSE [kind |-> "returned", deltas |-> <<>>]
          : data \in get_component_from_entity_id(
                         e, Unwrap(get_entity_from_component(e, my_pos.id)), "Turn")}

\* sleep: the counter of a sleeping owner falls by one, not below -1
sleep(my_pos, e) ==
    IF ~IsSome(get_entity_from_component(e, my_pos.id)) THEN {[kind |-> "panic"]}
    ELSE {IF IsSome(data) /\ Unwrap(data).data.state.kind = "Sleeping"
          THEN [kind |-> "returned",
                deltas |-> <<Change(make_change(Unwrap(data),
                                        [Unwrap(data).data EXCEPT !.state =
                                            Sleeping(cmp_max(
                                                WrapAdd(Unwrap(data).data.state.counter, 0 - 1),
                                                0 - 1))]))>>]
          ELSE [kind |-> "returned", deltas |-> <<>>]
          : data \in get_component_from_entity_id(
                         e, Unwrap(get_entity_from_component(e, my_pos.id)), "Turn")}

\* TurnTaker::process_turn: the deltas of the selected actions, each
\* computed on the store the turn began on, with the actions and the store
\* select_action leaves (the Cell of the behaviour is written in place)
process_turn(turn, components, e, g) ==
    LET nothing == [kind |-> "returned", changes |-> <<>>, actions |-> <<>>, ecs |-> e]
        grid == IF turn.data.avoid_hazards THEN g.safe_nav_grid ELSE g.hazard_nav_grid
        RECURSIVE act(_, _, _, _)
        act(actions, self_report, output, result) ==
            IF actions = <<>> THEN {[result EXCEPT !.changes = output]}
            ELSE LET action == Head(actions)
                     moved(step) ==
                         act(Tail(actions),
                             [self_report EXCEPT !.position.data = CoordAdd(@, step.dir)],
                             output \o step.deltas, result)
                     done(returned) ==
                         IF returned.kind = "panic" THEN {[kind |-> "panic"]}
                         ELSE act(Tail(actions), self_report, output \o returned.deltas, result)
                 IN IF action = "Approach"
                    THEN UNION {moved(step)
                                : step \in approach_player(self_report.position,
                                                           self_report.bump, result.ecs, grid)}
                    ELSE IF action = "Wander"
                    THEN UNION {moved(step)
                                : step \in wander(self_report.position, result.ecs, g.map)}
                    ELSE IF action = "Attack"
                    THEN UNION {act(Tail(actions), self_report, output \o deltas, result)
                                : deltas \in propagate_event(self_report.bump,
                                                             result.ecs.player_id, result.ecs)}
                    ELSE IF action = "Awake"
                    THEN UNION {done(returned)
                                : returned \in wake_up(self_report.position, result.ecs)}
                    ELSE UNION {done(returned)
                                : returned \in sleep(self_report.position, result.ecs)}
    IN UNION {UNION {
        IF ~IsSome(player_report) \/ ~IsSome(self_report) THEN {nothing}
        ELSE UNION {IF selected.kind = "panic" THEN {[kind |-> "panic"]}
                    ELSE act(selected.actions, Unwrap(self_report), <<>>,
                             [nothing EXCEPT
                                !.actions = selected.actions,
                                !.ecs.components[turn.id].data.behavior.acted_last_turn =
                                    selected.acted_last_turn])
                    : selected \in select_action(turn.data.behavior, Unwrap(self_report),
                                                 Unwrap(player_report), turn.data.state,
                                                 g.map, e)}
        : self_report \in make_unit_report(components)}
        : player_report \in get_player_report(e)}

\* System::run_next of the turn systems: the delta lists the system can
\* return for the components of a matched entity, with the game it leaves;
\* MonsterTurns returns the actions taken and the store as well, a panic
\* as the stage of the game.
run_next(system, components, e, g) ==
    LET no_changes == [changes |-> <<>>, g |-> g]
        fire == [event_type |-> "Fire", attack |-> None, payload |-> {}]
        owner(c) == get_entity_from_component(e, c.id)
        RECURSIVE spread(_)
        spread(ids) ==
            IF ids = <<>> THEN {<<>>}
            ELSE {first \o rest : first \in propagate_event(fire, Head(ids), e),
                                  rest \in spread(Tail(ids))}
        get_all_adjacent_entities(point) ==
            {up \o down \o left \o right :
                up \in orders(get_entities_at_position(e, CoordAdd(point, Directions[1]))),
                down \in orders(get_entities_at_position(e, CoordAdd(point, Directions[2]))),
                left \in orders(get_entities_at_position(e, CoordAdd(point, Directions[3]))),
                right \in orders(get_entities_at_position(e, CoordAdd(point, Directions[4])))}
    IN IF system = "Exploration"
       THEN {IF /\ IsSome(pos_data) /\ IsSome(col_data)
                /\ IsSome(owner(Unwrap(col_data)))
                /\ Unwrap(col_data).data = "Walkable"
                /\ Unwrap(owner(Unwrap(col_data))) \notin g.open_doors
             THEN [changes |-> <<>>,
                   g |-> [g EXCEPT
                            !.explored = explore_flood_fill(explore_room(g, Unwrap(pos_data).data),
                                                            Unwrap(pos_data).data, g.map, e),
                            !.open_doors = @ \cup {Unwrap(owner(Unwrap(col_data)))}]]
             ELSE no_changes
             : pos_data \in take_component_from_refs("Position", components),
               col_data \in take_component_from_refs("Collision", components)}
       ELSE IF system = "Fire"
       THEN UNION {
            IF ~IsSome(burning) \/ Unwrap(burning).data.effect # "Burning" THEN {no_changes}
            ELSE {[changes |-> own \o adjacent, g |-> g] :
                    own \in IF IsSome(owner(Unwrap(burning)))
                            THEN propagate_event(fire, Unwrap(owner(Unwrap(burning))), e)
                            ELSE {<<>>},
                    adjacent \in UNION {
                        IF IsSome(maybe_position)
                        THEN UNION {spread(ids)
                                    : ids \in get_all_adjacent_entities(Unwrap(maybe_position).data)}
                        ELSE {<<>>}
                        : maybe_position \in take_component_from_refs("Position", components)}}
            : burning \in take_component_from_refs("DurationEffect", components)}
       ELSE IF system = "Acid"
       THEN UNION {
            IF ~IsSome(acid) \/ Unwrap(acid).data.effect # "Acid" \/ ~IsSome(owner(Unwrap(acid)))
            THEN {no_changes}
            ELSE {IF IsSome(health)
                  THEN [changes |-> <<Change(make_change(Unwrap(health), Health(0 - 2, 0)))>>, g |-> g]
                  ELSE no_changes
                  : health \in take_component_from_refs("Health",
                        get_components_from_entity_id(e, Unwrap(owner(Unwrap(acid)))))}
            : acid \in take_component_from_refs("DurationEffect", components)}
       ELSE IF system = "Stoneskin"
       THEN UNION {
            IF \/ ~IsSome(effect) \/ Unwrap(effect).data.effect # "Stoneskin"
               \/ Unwrap(effect).data.duration # 0
            THEN {no_changes}
            ELSE {IF IsSome(melee_response) /\ IsSome(ranged_response)
                  THEN LET full_damage == EventResponse_new_with("take_damage_response")
                       IN [changes |-> <<Change(make_change(Unwrap(melee_response), full_damage)),
                                         Change(make_change(Unwrap(ranged_response), full_damage))>>,
                           g |-> g]
                  ELSE no_changes
                  : melee_response \in take_component_from_refs("BumpResponse", components),
                    ranged_response \in take_component_from_refs("ShotResponse", components)}
            : effect \in take_component_from_refs("DurationEffect", components)}
       ELSE IF system = "Duration"
       THEN {IF ~IsSome(effect) THEN no_changes
             ELSE IF Unwrap(effect).data.duration = 0
             THEN [changes |-> <<DeleteComponent(Unwrap(effect).id, None)>>, g |-> g]
             ELSE [changes |-> <<Change(make_change(Unwrap(effect),
                                    [duration |-> 0 - 1, effect |-> Unwrap(effect).data.effect]))>>,
                   g |-> g]
             : effect \in take_component_from_refs("DurationEffect", components)}
       ELSE IF system = "UnitCull"
       THEN UNION {
            IF IsSome(health) /\ Unwrap(health).data.current <= 0 /\ IsSome(owner(Unwrap(health)))
            THEN {[changes |-> event_results
                               \o <<DeleteEntity(new_from_entity(Unwrap(owner(Unwrap(health)))))>>,
                   g |-> g]
                  : event_results \in propagate_event(
                        [event_type |-> "Death", attack |-> None, payload |-> {}],
                        Unwrap(owner(Unwrap(health))), e)}
            ELSE {no_changes}
            : health \in take_component_from_refs("Health", components)}
       ELSE IF system = "PlayerCheck"
       THEN {IF /\ IsSome(self_report) /\ IsSome(Unwrap(self_report).stats)
                /\ Unwrap(Unwrap(self_report).stats).data.xp
                      >= 100 * Unwrap(Unwrap(self_report).stats).data.level
             THEN [changes |-> <<Change(make_change(Unwrap(Unwrap(self_report).stats),
                                    [Attributes_default EXCEPT !.level_pending = TRUE]))>>,
                   g |-> g]
             ELSE no_changes
             : self_report \in make_unit_report(components)}
       ELSE UNION {
            IF ~IsSome(data) THEN {[changes |-> <<>>, g |-> g, actions |-> <<>>, ecs |-> e]}
            ELSE {IF turn.kind = "panic"
                  THEN [changes |-> <<>>, g |-> [g EXCEPT !.stage = "panic"],
                        actions |-> <<>>, ecs |-> e]
                  ELSE [changes |-> turn.changes, g |-> g, actions |-> turn.actions,
                        ecs |-> turn.ecs]
                  : turn \in process_turn(Unwrap(data), components, e, g)}
            : data \in take_component_from_refs("Turn", components)}

\* mutant: the deltas of a pass are applied to the store after the last
\* matched entity
run_system_batched(system, e, g) ==
    LET matches == get_entities_matching_query(e, get_requirements(system))
        RECURSIVE pass(_, _, _, _)
        pass(i, game, batch, passes) ==
            IF i > Len(matches)
            THEN {[ecs |-> store, g |-> game, passes |-> passes] : store \in apply_changes(e, batch)}
            ELSE UNION {pass(i + 1, next.g, batch \o next.changes,
                             Append(passes, [entity |-> matches[i], view |-> e,
                                             changes |-> next.changes,
                                             actions |-> IF system = "MonsterTurns"
                                                         THEN next.actions ELSE <<>>]))
                        : next \in run_next(system, get_components_from_entity_id(e, matches[i]),
                                            e, game)}
    IN UNION {pass(1, game, <<>>, <<>>) : game \in run_pre_loop(system, e, g)}

\* SystemManager::run_system: the stores and games a pass of the system
\* can leave, with the store each matched entity was processed on and
\* the deltas it produced
run_system(system, e, g) ==
    LET matches == get_entities_matching_query(e, get_requirements(system))
        RECURSIVE pass(_, _, _, _)
        pass(i, store, game, passes) ==
            IF i > Len(matches) \/ game.stage = "panic"
            THEN {[ecs |-> store, g |-> game, passes |-> passes]}
            ELSE UNION {UNION {pass(i + 1, applied, next.g,
                                    Append(passes, [entity |-> matches[i], view |-> store,
                                                    changes |-> next.changes,
                                                    actions |-> IF system = "MonsterTurns"
                                                                THEN next.actions ELSE <<>>]))
                               : applied \in apply_changes(IF system = "MonsterTurns"
                                                            THEN next.ecs ELSE store,
                                                            next.changes)}
                        : next \in run_next(system,
                                            get_components_from_entity_id(store, matches[i]),
                                            store, game)}
    IN UNION {pass(1, e, game, <<>>) : game \in run_pre_loop(system, e, g)}

\* mutant: UnitCull is added after MonsterTurns
add_default_systems_cull_last ==
    <<"Exploration", "Fire", "Acid", "Stoneskin", "Duration", "PlayerCheck", "MonsterTurns",
      "UnitCull">>

\* mutant: PlayerCheck is added before UnitCull
add_default_systems_reordered ==
    <<"Exploration", "Fire", "Acid", "Stoneskin", "Duration", "PlayerCheck", "UnitCull",
      "MonsterTurns">>

\* Game::add_default_systems: the turn systems in the order of the
\* add_turn_system calls
add_default_systems ==
    <<"Exploration", "Fire", "Acid", "Stoneskin", "Duration", "UnitCull", "PlayerCheck",
      "MonsterTurns">>

\* Game::end_turn reached at the end of a command
end_turn(e) == [ecs |-> e, result |-> "end_turn"]

\* an early return of a command
aborted(e) == [ecs |-> e, result |-> "aborted"]

\* Game::wait_command
wait_command(e, g) == {end_turn(e)}

\* Game::step_command
step_command(e, g, direction) ==
    UNION {
        IF ~IsSome(player_report) THEN {aborted(e)}
        ELSE LET coord == CoordAdd(Unwrap(player_report).position.data, direction)
                 event == Unwrap(player_report).bump
             IN IF ~is_tile_passable(g.map, coord) THEN {aborted(e)}
                ELSE UNION {
                    IF IsSome(entity_id)
                    THEN {end_turn(bumped)
                          : bumped \in propagate_and_apply_events(e, event, <<Unwrap(entity_id)>>)}
                    ELSE UNION {UNION {{end_turn(moved) : moved \in move_player(bumped, direction)}
                                       : bumped \in propagate_and_apply_events(e, event, entities)}
                                : entities \in orders(get_entities_at_position(e, coord))}
                    : entity_id \in get_blocking_entity(e, coord)}
        : player_report \in get_player_report(e)}

\* Game::target_command
target_command(e, g, coord) ==
    UNION {
        IF ~IsSome(maybe_position) THEN {[ecs |-> e, result |-> "panic"]}
        ELSE IF coord = Unwrap(maybe_position).data THEN wait_command(e, g)
        ELSE IF distance_squared(coord, Unwrap(maybe_position).data) <= 1
        THEN step_command(e, g, CoordSub(coord, Unwrap(maybe_position).data))
        ELSE {aborted(e)}
        : maybe_position \in take_component_from_refs("Position",
                           get_components_from_entity_id(e, e.player_id))}

\* Game::shoot_command
shoot_command(e, g, coord) ==
    UNION {UNION {
        IF ~IsSome(player_report) \/ ~IsSome(target) THEN {aborted(e)}
        ELSE LET event == Unwrap(player_report).shoot
                 origin == Unwrap(player_report).position.data
                 distance == distance_squared(coord, origin)
             IN IF ~IsSome(event.attack) \/ ~IsSome(Unwrap(event.attack).range)
                THEN {[ecs |-> e, result |-> "panic"]}
                ELSE UNION {
                    IF seen.kind = "panic" THEN {[ecs |-> e, result |-> "panic"]}
                    ELSE IF ~seen.value THEN {aborted(e)}
                    ELSE IF distance > Unwrap(Unwrap(event.attack).range)
                                       * Unwrap(Unwrap(event.attack).range)
                    THEN {aborted(e)}
                    ELSE IF distance <= 1 THEN {aborted(e)}
                    ELSE {end_turn(shot)
                          : shot \in propagate_and_apply_events(e, event, <<Unwrap(target)>>)}
                    : seen \in line_of_sight(origin, coord, g.map, e)}
        : target \in get_blocking_entity(e, coord)}
        : player_report \in get_player_report(e)}

\* mutant: a spell is cast whatever its cooldown state
cast_spell_always(e, spell) ==
    UNION {{end_turn(cast) :
              cast \in apply_changes(e, deltas \o <<Change(make_change(spell,
                           [spell.data EXCEPT !.castable = "Cooldown"]))>>)}
           : deltas \in spell_effect(spell.data, e)}

\* Game::cast_spell_command from the test of the cooldown state on, for the
\* spell the index picked
cast_spell(e, spell) ==
    IF spell.data.castable # "Available" THEN {aborted(e)}
    ELSE UNION {{end_turn(cast) :
                   cast \in apply_changes(e, deltas \o <<Change(make_change(spell,
                                [spell.data EXCEPT !.castable = "Cooldown"]))>>)}
                : deltas \in spell_effect(spell.data, e)}

\* Game::cast_spell_command: get_player_spells lists the Spell components
\* in the order of the component table, a HashMap
cast_spell_command(e, g, spell_id) ==
    LET spells == {c \in Range(e.components) : c.type = "Spell"}
    IN IF spell_id < 0 \/ Cardinality(spells) <= spell_id THEN {aborted(e)}
       ELSE UNION {cast_spell(e, spell) : spell \in spells}

\* Game::close_doors_command
close_doors_command(e, g) ==
    IF ~has_entity(e, e.player_id) THEN {[ecs |-> e, result |-> "panic"]}
    ELSE UNION {
        IF ~IsSome(maybe_position) THEN {aborted(e)}
        ELSE LET is_door(entity_id) == entity_id_has_component(e, entity_id, "Door")
                 in_tile(direction) ==
                     {SelectSeq(entities, is_door)
                      : entities \in orders(get_entities_at_position(
                                                e, CoordAdd(Unwrap(maybe_position).data, direction)))}
             IN UNION {{end_turn(closed)
                        : closed \in propagate_and_apply_events(
                                         e, [event_type |-> "Bump", attack |-> None, payload |-> {}],
                                         doors)}
                       : doors \in {up \o down \o left \o right :
                                       up \in in_tile(Directions[1]), down \in in_tile(Directions[2]),
                                       left \in in_tile(Directions[3]), right \in in_tile(Directions[4])}}
        : maybe_position \in take_component_from_refs("Position",
                           get_components_from_entity_id(e, e.player_id))}

\* the spells of SPELL_REGISTRY
SPELL_REGISTRY ==
    <<[name |-> "Invisibility", effect |-> "invisible", castable |-> "Available"],
      [name |-> "Levitate", effect |-> "levitate", castable |-> "Available"],
      [name |-> "Heal", effect |-> "heal", castable |-> "Available"],
      [name |-> "Stoneskin", effect |-> "stoneskin", castable |-> "Available"],
      [name |-> "Brittle", effect |-> "brittle", castable |-> "Available"],
      [name |-> "Mass Flames", effect |-> "mass_flame", castable |-> "Available"]>>

\* mutant: the command ends the turn
level_up_command_ends_turn(e, g, choice, amount) == {end_turn(e)}

\* Game::level_up_command
level_up_command(e, g, choice, amount) ==
    LET components == get_components_from_entity_id(e, e.player_id)
    IN UNION {
        IF ~IsSome(stats) \/ ~IsSome(health) THEN {aborted(e)}
        ELSE LET bonus(field) == [Attributes_default EXCEPT ![field] = amount]
                 stat_change ==
                     IF choice = 0 THEN make_change(Unwrap(stats), bonus("strength"))
                     ELSE IF choice = 1 THEN make_change(Unwrap(stats), bonus("dexterity"))
                     ELSE new_with("Attributes", Attributes_default)
                 spell == IF choice = 2 /\ amount + 1 \in DOMAIN SPELL_REGISTRY
                          THEN Some(SPELL_REGISTRY[amount + 1]) ELSE None
                 xp_change ==
                     make_change(Unwrap(stats),
                                 [Attributes_default EXCEPT
                                     !.level = 1, !.xp = 0 - 100 * Unwrap(stats).data.level])
                 fifth == (2 * Unwrap(health).data.max) \div 10
                 health_increase == make_change(Unwrap(health), Health(fifth, fifth))
                 restore_health ==
                     make_change(Unwrap(health), get_health_reset_diff(Unwrap(health).data))
                 change_list ==
                     <<Change(stat_change), Change(xp_change), Change(restore_health),
                       Change(health_increase)>>
                     \o (IF IsSome(spell)
                         THEN <<MakeComponent(new_with("Spell", Unwrap(spell)),
                                              new_from_entity(e.player_id))>>
                         ELSE <<>>)
             IN {[ecs |-> changed, result |-> "done"] : changed \in apply_changes(e, change_list)}
        : stats \in take_component_from_refs("Attributes", components),
          health \in take_component_from_refs("Health", components)}

(***************************************************************************)
(* Specification of the turn engine.  ecs is the store of the game and mb  *)
(* the rest of it, with the position of the program: "idle" between       *)
(* commands, "end_turn" inside run_turn_systems before the system at index *)
(* next, "panic" after a panic.  ran lists the systems run since the last  *)
(* command began, command the last command and how it returned.  last     *)
(* records a command with the store it began on, or a pass of a system     *)
(* with the store each matched entity was processed on.                    *)
(***************************************************************************)
InitTurn ==
    LET floor == {Coord(x, 1) : x \in 1..TurnWidth}
        rooms == <<Box(0, 0, 3, 2), Box(3, 0, TurnWidth + 1, 2)>>
        map == [floor |-> floor,
                wall |-> (tiles(rooms[1]) \cup tiles(rooms[2])) \ floor,
                rooms |-> rooms]
        effect(entity_id, duration, kind) ==
            MakeComponent(new_with("DurationEffect", [duration |-> duration, effect |-> kind]),
                          new_from_entity(entity_id))
        RECURSIVE spawn_doors(_, _)
        spawn_doors(e, doors) ==
            IF doors = <<>> THEN {e}
            ELSE UNION {spawn_doors(made, Tail(doors)) : made \in make_door(e, Coord(Head(doors), 1))}
        game == [stage |-> "idle", map |-> map, explored |-> {}, open_doors |-> {},
                 safe_nav_grid |-> <<>>, hazard_nav_grid |-> <<>>,
                 turn_systems |-> add_default_systems, next |-> 1, ran |-> <<>>,
                 command |-> [name |-> "new", result |-> "done"], turns |-> 0, level_ups |-> 0]
        \* the spells of the store after they were cast
        cast(e) ==
            {[i \in DOMAIN spells |->
                 Change(make_change(spells[i], [spells[i].data EXCEPT !.castable = "Cooldown"]))]
             : spells \in orders({c \in Range(e.components) : c.type = "Spell"})}
    IN /\ last = Idle /\ diff = Idle
       /\ \E doors \in {<<3>>, <<2, 3>>, <<TurnWidth>>} :
          \E effects \in {<<>>,
                          <<effect(0, 1, "Burning"), effect(1, 1, "Burning")>>,
                          <<effect(0, 0, "Acid")>>,
                          <<effect(0, 0, "Stoneskin")>>,
                          <<[kind |-> "Cast"]>>} :
          \E spawned \in UNION {spawn_doors(player, doors) : player \in make_player(ECS_new, Coord(1, 1))} :
             /\ ecs \in IF effects = <<[kind |-> "Cast"]>>
                        THEN UNION {apply_changes(spawned, casts) : casts \in cast(spawned)}
                        ELSE apply_changes(spawned, effects)
             /\ mb = [game EXCEPT !.explored = explore_room(game, Coord(1, 1))]

\* the return of a command
Returns(name, args, outcome) ==
    /\ ecs' = outcome.ecs
    /\ mb' = [mb EXCEPT !.stage = IF outcome.result = "end_turn" THEN "end_turn"
                                  ELSE IF outcome.result = "panic" THEN "panic"
                                  ELSE "idle",
                        !.next = 1,
                        !.ran = <<>>,
                        !.command = [name |-> name, result |-> outcome.result],
                        !.level_ups = IF name = "level_up_command" THEN @ + 1 ELSE @]
    /\ last' = [kind |-> "command", name |-> name, args |-> args, before |-> ecs]
    /\ UNCHANGED diff

Commanded == mb.stage = "idle" /\ mb.turns + mb.level_ups < MaxCommands

WaitCommand ==
    /\ Commanded
    /\ \E outcome \in wait_command(ecs, mb) : Returns("wait_command", <<>>, outcome)

StepCommand ==
    /\ Commanded
    /\ \E direction \in Range(Directions) :
       \E outcome \in step_command(ecs, mb, direction) :
          Returns("step_command", <<direction>>, outcome)

TargetCommand ==
    /\ Commanded
    /\ \E coord \in {tile \in mb.map.floor : tile.x <= 3} :
       \E outcome \in target_command(ecs, mb, coord) :
          Returns("target_command", <<coord>>, outcome)

ShootCommand ==
    /\ Commanded
    /\ \E coord \in mb.map.floor :
       \E outcome \in shoot_command(ecs, mb, coord) :
          Returns("shoot_command", <<coord>>, outcome)

CastSpellCommand ==
    /\ Commanded
    /\ \E spell_id \in (0 - 1)..2 :
       \E outcome \in cast_spell_command(ecs, mb, spell_id) :
          Returns("cast_spell_command", <<spell_id>>, outcome)

CloseDoors ==
    /\ Commanded
    /\ \E outcome \in close_doors_command(ecs, mb) : Returns("close_doors_command", <<>>, outcome)

LevelUpCommand ==
    /\ Commanded
    /\ \E input \in {<<0, 1>>, <<2, 1>>, <<2, 9>>} :
       \E outcome \in level_up_command(ecs, mb, input[1], input[2]) :
          Returns("level_up_command", input, outcome)

\* SystemManager::run_turn_systems: one iteration of its loop
RunTurnSystems ==
    /\ mb.stage = "end_turn"
    /\ \E pass \in run_system(mb.turn_systems[mb.next], ecs, mb) :
          /\ ecs' = pass.ecs
          /\ mb' = [pass.g EXCEPT
                       !.ran = Append(@, mb.turn_systems[mb.next]),
                       !.next = @ + 1,
                       !.stage = IF pass.g.stage = "panic" THEN "panic"
                                 ELSE IF mb.next = Len(mb.turn_systems) THEN "idle"
                                 ELSE "end_turn",
                       !.turns = IF mb.next = Len(mb.turn_systems) THEN @ + 1 ELSE @]
          /\ last' = [kind |-> "pass", system |-> mb.turn_systems[mb.next],
                      before |-> ecs, passes |-> pass.passes]
    /\ UNCHANGED diff

NextTurn ==
    \/ WaitCommand
    \/ StepCommand
    \/ TargetCommand
    \/ ShootCommand
    \/ CastSpellCommand
    \/ CloseDoors
    \/ LevelUpCommand
    \/ RunTurnSystems

SpecTurn == InitTurn /\ [][NextTurn]_vars


(***************************************************************************)
(* Specification of event propagation: propagate_event is called once on   *)
(* a store of the turn engine, with an event of the player or one without  *)
(* an attack, for an entity of the table or the first id beyond it.  mb    *)
(* records the event, the target and the deltas returned.                  *)
(***************************************************************************)
PropagateEvent ==
    /\ mb.stage = "idle"
    /\ \E event \in UNION {IF IsSome(report)
                           THEN {Unwrap(report).bump, Unwrap(report).shoot}
                           ELSE {}
                           : report \in get_player_report(ecs)}
                    \cup {[event_type |-> event_type, attack |-> None, payload |-> {}]
                          : event_type \in {"Bump", "Shot", "Death", "Fire"}} :
       \E target \in 0..Len(ecs.entities) :
       \E deltas \in propagate_event(event, target, ecs) :
          /\ mb' = [stage |-> "propagated", event |-> event, target |-> target,
                    deltas |-> deltas]
          /\ last' = [kind |-> "event", before |-> ecs]
          /\ UNCHANGED <<ecs, diff>>

SpecEvent == InitTurn /\ [][PropagateEvent]_vars

(***************************************************************************)
(* Specification of the monsters: a corridor with an alcove of two tiles,  *)
(* the player at its end and one or two monsters of make_doggo, make_bat,  *)
(* make_heavy and make_skelly.  In the scenario "sleep" a monster sleeps and the player   *)
(* waits; in "invisible" the player carries an Invisible effect, alone or  *)
(* with the Burning of a fire, and a wall may stand between the two; in    *)
(* "approach" two alert monsters make for the player; in "cull" the player *)
(* bumps into a monster next to it; in "open" the floor is a room of two   *)
(* rows, with a flame on a tile or without, and a monster three tiles from *)
(* the player.  Each turn is a command followed by                         *)
(* the turn systems; budget is the number of turns of the scenario and     *)
(* monsters the spawners called with the tiles they were called for.       *)
(***************************************************************************)
MonsterFloorWidth == 4  \* length of the corridor
MaxSleep == 2           \* cap on the counter of a sleeping monster
MaxMonsterTurns == 1    \* turns of the scenarios without a sleeping monster

\* the spawner of the monster
make_monster(e, monster) ==
    IF monster.kind = "doggo" THEN make_doggo(e, monster.start, 6)
    ELSE IF monster.kind = "bat" THEN make_bat(e, monster.start, 4)
    ELSE IF monster.kind = "heavy" THEN make_heavy(e, monster.start, 13)
    ELSE make_skelly(e, monster.start, 7, 2)

InitMonsters ==
    LET width == MonsterFloorWidth
        room == Box(0, 0, width + 1, 3)
        open == {Coord(x, 1) : x \in 1..width} \cup {Coord(2, 2), Coord(3, 2)}
        map(walls) ==
            [floor |-> open \ walls, wall |-> (tiles(room) \ open) \cup walls,
             rooms |-> <<room>>]
        two_rows == {Coord(x, y) : x \in 1..4, y \in 1..2}
        game(scenario, walls, budget, monsters) ==
            [stage |-> "idle", map |-> map(walls), explored |-> {}, open_doors |-> {},
             safe_nav_grid |-> <<>>, hazard_nav_grid |-> <<>>,
             turn_systems |-> add_default_systems, next |-> 1, ran |-> <<>>,
             command |-> [name |-> "new", result |-> "done"], turns |-> 0, level_ups |-> 0,
             scenario |-> scenario, budget |-> budget, monsters |-> monsters]
        monster(kind, start) == [kind |-> kind, start |-> start]
        kinds == {"doggo", "bat", "heavy", "skelly"}
        effect(duration, kind) ==
            MakeComponent(new_with("DurationEffect", [duration |-> duration, effect |-> kind]),
                          new_from_entity(0))
        RECURSIVE spawn(_, _)
        spawn(e, monsters) ==
            IF monsters = <<>> THEN {e}
            ELSE UNION {spawn(made, Tail(monsters)) : made \in make_monster(e, Head(monsters))}
        floors(monsters) ==
            UNION {spawn(player, monsters) : player \in make_player(ECS_new, Coord(1, 1))}
        RECURSIVE light(_, _)
        light(e, flames) ==
            IF flames = <<>> THEN {e}
            ELSE UNION {light(made, Tail(flames)) : made \in make_flame(e, Head(flames))}
        \* the Turn of the entity is put to sleep
        asleep(e, entity_id, counter) ==
            UNION {apply_change(e, Change(make_change(Unwrap(turn),
                                    [Unwrap(turn).data EXCEPT !.state = Sleeping(counter)])))
                   : turn \in get_component_from_entity_id(e, entity_id, "Turn")}
    IN /\ last = Idle /\ diff = Idle
       /\ \/ \E kind \in kinds, counter \in 1..MaxSleep :
             \E start \in {Coord(2, 1), Coord(width, 1), Coord(3, 2)} :
                /\ ecs \in UNION {asleep(e, 1, counter)
                                  : e \in floors(<<monster(kind, start)>>)}
                /\ mb = game("sleep", {}, counter + 1, <<monster(kind, start)>>)
          \/ \E kind \in kinds, walls \in {{}, {Coord(2, 1)}} :
             \E effects \in {<<effect(8, "Invisible")>>,
                             <<effect(1, "Burning"), effect(8, "Invisible")>>} :
             \E start \in {Coord(3, 1), Coord(2, 2), Coord(width, 1)} :
                /\ ecs \in UNION {apply_changes(e, effects)
                                  : e \in floors(<<monster(kind, start)>>)}
                /\ mb = game("invisible", walls, MaxMonsterTurns, <<monster(kind, start)>>)
          \/ \E pair \in {<<"doggo", "bat">>, <<"bat", "doggo">>, <<"bat", "bat">>,
                          <<"skelly", "heavy">>, <<"doggo", "skelly">>} :
             \E starts \in {<<Coord(width, 1), Coord(width - 1, 1)>>,
                            <<Coord(width - 1, 1), Coord(width, 1)>>,
                            <<Coord(3, 2), Coord(width, 1)>>,
                            <<Coord(2, 2), Coord(3, 1)>>,
                            <<Coord(2, 1), Coord(3, 1)>>} :
                /\ ecs \in floors(<<monster(pair[1], starts[1]), monster(pair[2], starts[2])>>)
                /\ mb = game("approach", {}, MaxMonsterTurns,
                             <<monster(pair[1], starts[1]), monster(pair[2], starts[2])>>)
          \/ \E kind \in {"doggo", "skelly"}, start \in {Coord(4, 1), Coord(3, 2)} :
             \E flames \in {<<>>, <<Coord(2, 1)>>, <<Coord(3, 1)>>} :
                /\ ecs \in UNION {light(e, flames) : e \in floors(<<monster(kind, start)>>)}
                /\ mb = [game("open", {}, 1, <<monster(kind, start)>>) EXCEPT
                            !.map = [floor |-> two_rows, wall |-> tiles(Box(0, 0, 5, 3)) \ two_rows,
                                     rooms |-> <<Box(0, 0, 5, 3)>>]]
          \/ \E pair \in {<<"skelly", "bat">>, <<"doggo", "skelly">>, <<"bat", "heavy">>} :
                /\ ecs \in floors(<<monster(pair[1], Coord(2, 1)), monster(pair[2], Coord(3, 2))>>)
                /\ mb = game("cull", {}, MaxMonsterTurns,
                             <<monster(pair[1], Coord(2, 1)), monster(pair[2], Coord(3, 2))>>)

\* the player waits
MonstersWait ==
    /\ mb.stage = "idle" /\ mb.turns < mb.budget
    /\ mb.scenario # "cull"
    /\ \E outcome \in wait_command(ecs, mb) : Returns("wait_command", <<>>, outcome)

\* the player steps or bumps
MonstersStep ==
    /\ mb.stage = "idle" /\ mb.turns < mb.budget
    /\ mb.scenario = "cull"
    /\ \E direction \in Range(Directions) :
       \E outcome \in step_command(ecs, mb, direction) :
          Returns("step_command", <<direction>>, outcome)

NextMonsters ==
    \/ MonstersWait
    \/ MonstersStep
    \/ RunTurnSystems

SpecMonsters == InitMonsters /\ [][NextMonsters]_vars

(***************************************************************************)
(* Spawning and the descent (src/map/boxextends.rs, src/map/mapbuilder.rs, *)
(* src/game/spawning.rs, src/ecs/ecs.rs, src/game/core.rs).  A room is its *)
(* box, its spawn table (a HashMap from a name to the least and the most   *)
(* to spawn) and its door locations.  The floors of the model are too      *)
(* small for generic and huge rooms and lie above depth 4, so the tables   *)
(* name the player, the stairs, doggos, skeletons and corpses.             *)
(***************************************************************************)
ENEMY_HP_INCREASE_TENTHS == 2

GOLD_INCREASE_TENTHS == 1

\* the values gen_range(low..=high) is taken to roll: the ends of the range
gen_range(low, high) == {low, high}

\* (roll as f64 * (1.0 + increase * levels)) as isize, the increase in tenths
scaled(roll, tenths, levels) == (roll * (10 + tenths * levels)) \div 10

\* make_stairs_down
make_stairs_down(e, start) ==
    add_components_to_entity(create_entity(e), Len(e.entities),
        <<new_with("Image", ImageHandle_new([id |-> 16, depth |-> 7])),
          new_with("Stairs", Unit),
          new_with("Position", start),
          new_with("Collision", "Walkable")>>)

\* make_lootable_body, with the coins of its inventory
make_lootable_body(e, start, coins) ==
    add_components_to_entity(create_entity(e), Len(e.entities),
        <<new_with("Image", ImageHandle_new([id |-> 14, depth |-> 6])),
          new_with("Position", start),
          new_with("Collision", "Walkable"),
          new_with("Inventory", [coins |-> coins]),
          new_with("Health", Health_new(2)),
          new_with("BumpResponse", EventResponse_new_with("pickup_loot_response")),
          new_with("FireResponse", EventResponse_new_with("default_burn_response"))>>)

\* the keys of OBJECT_SPAWN_NAMES
OBJECT_SPAWN_NAMES ==
    {"Doggo", "Heavy", "Pewpew", "Pewpewpet", "Player", "Chest", "Gold", "Door", "StairsDown",
     "Corpse", "Spikes", "Fire", "Acid pool", "Fungus", "Rat", "Critters", "Bat"}

\* the spawn function of OBJECT_SPAWN_NAMES called for the names the tables
\* of the model hold, at a depth from 1 to 4
spawn_func(name, e, coord, depth) ==
    IF name = "Player" THEN make_player(e, coord)
    ELSE IF name = "StairsDown" THEN make_stairs_down(e, coord)
    ELSE IF name = "Door" THEN make_door(e, coord)
    ELSE IF name = "Fire" THEN make_flame(e, coord)
    ELSE IF name = "Doggo"
    THEN UNION {make_doggo(e, coord, scaled(roll, ENEMY_HP_INCREASE_TENTHS, depth - 1))
                : roll \in gen_range(6, 9)}
    ELSE IF name = "Pewpewpet"
    THEN UNION {make_skelly(e, coord, scaled(roll, ENEMY_HP_INCREASE_TENTHS, depth - 1),
                            scaled(gold, GOLD_INCREASE_TENTHS, depth))
                : roll \in gen_range(7, 10), gold \in gen_range(2, 15)}
    ELSE IF name = "Corpse"
    THEN UNION {make_lootable_body(e, coord, scaled(gold, GOLD_INCREASE_TENTHS, depth))
                : gold \in gen_range(5, 18)}
    ELSE {}

SpawnEntry(name, min, max) == [name |-> name, min |-> min, max |-> max]

\* SMALL_ROOMS: the templates with their depth requirements
SMALL_ROOMS ==
    <<[spawn_entries |-> {SpawnEntry("Doggo", 1, 1), SpawnEntry("Corpse", 0, 1)},
       depth_requirement |-> 1],
      [spawn_entries |-> {SpawnEntry("Pewpewpet", 1, 1), SpawnEntry("", 0, 0)},
       depth_requirement |-> 1],
      [spawn_entries |-> {SpawnEntry("Corpse", 0, 1), SpawnEntry("", 0, 0)},
       depth_requirement |-> 1],
      [spawn_entries |-> {SpawnEntry("Pewpewpet", 1, 2), SpawnEntry("Corpse", 0, 1)},
       depth_requirement |-> 2],
      [spawn_entries |-> {SpawnEntry("Pewpew", 1, 1), SpawnEntry("Chest", 0, 1)},
       depth_requirement |-> 4],
      [spawn_entries |-> {SpawnEntry("Heavy", 1, 1), SpawnEntry("Corpse", 1, 3)},
       depth_requirement |-> 5]>>

\* get_spawn_table: the tables of the templates the depth allows
get_spawn_table(templates, depth) ==
    {templates[i].spawn_entries
     : i \in {k \in DOMAIN templates : templates[k].depth_requirement <= depth}}

\* the tables flood_fill_spawn_tables can give a room of the model
spawn_tables_of(entry, depth) ==
    LET drawn == IF entry.templates = "Player" THEN {{SpawnEntry("Player", 1, 1)}}
                 ELSE IF entry.templates = "SMALL_ROOMS" THEN get_spawn_table(SMALL_ROOMS, depth)
                 ELSE {}
    IN {IF entry.stairs_down THEN table \cup {SpawnEntry("StairsDown", 1, 1)} ELSE table
        : table \in drawn}

Room(extends, spawn_table, door_locations) ==
    [extends |-> extends, spawn_table |-> spawn_table, door_locations |-> door_locations]

\* Room::adjacent_to_door
adjacent_to_door(room, coord) ==
    \E i \in DOMAIN room.door_locations :
        distance_squared(coord, room.door_locations[i]) <= 1

\* Room::get_free_coordinate: the coordinates the loop can end with; with
\* none left it does not end
get_free_coordinate(room, occupied, x_min, x_max, y_min, y_max) ==
    {coord \in {Coord(x, y) : x \in x_min..x_max, y \in y_min..y_max} :
        coord \notin occupied /\ ~adjacent_to_door(room, coord)}

\* ECS::has_player
has_player(e) == has_entity(e, e.player_id)

\* ECS::get_player_position
get_player_position(e) ==
    {IF IsSome(maybe_position) THEN Some(Unwrap(maybe_position).data) ELSE None
     : maybe_position \in get_component_from_entity_id(e, e.player_id, "Position")}

\* ECS::set_player_position
set_player_position(e, coord) ==
    UNION {IF IsSome(maybe_position)
           THEN apply_change(e, Change(make_change(Unwrap(maybe_position),
                                       CoordSub(coord, Unwrap(maybe_position).data))))
           ELSE {e}
           : maybe_position \in get_component_from_entity_id(e, e.player_id, "Position")}

RECURSIVE spawn_doors(_, _, _)
\* Room::spawn_doors, from the i-th door location on
spawn_doors(room, e, i) ==
    IF i > Len(room.door_locations) THEN {e}
    ELSE IF is_blocked_by_entity(e, room.door_locations[i]) THEN spawn_doors(room, e, i + 1)
    ELSE UNION {spawn_doors(room, made, i + 1) : made \in make_door(e, room.door_locations[i])}

\* Room::spawn_entities: the stores it can leave, with the names and the
\* coordinates get_free_coordinate returned in the order of the calls
spawn_entities(room, e, depth) ==
    LET x_min == room.extends.top_left.x + 1
        x_max == room.extends.bottom_right.x - 1
        y_min == room.extends.top_left.y + 1
        y_max == room.extends.bottom_right.y - 1
        free(occupied) == get_free_coordinate(room, occupied, x_min, x_max, y_min, y_max)
        RECURSIVE spawn(_, _, _)
        spawn(name, amount, at) ==
            IF amount = 0 THEN {at}
            ELSE UNION {UNION {spawn(name, amount - 1,
                                     [ecs |-> made, occupied |-> at.occupied \cup {coord},
                                      placed |-> Append(at.placed,
                                                        [name |-> name, coord |-> coord])])
                               : made \in spawn_func(name, at.ecs, coord, depth)}
                        : coord \in free(at.occupied)}
        RECURSIVE process(_, _, _)
        process(table, i, at) ==
            IF i > Len(table) THEN {at}
            ELSE IF table[i].name = "Player" /\ has_player(at.ecs)
            THEN UNION {UNION {process(table, i + 1,
                                       [at EXCEPT !.ecs = moved,
                                                  !.placed = Append(@, [name |-> "Player",
                                                                        coord |-> coord])])
                               : moved \in set_player_position(at.ecs, coord)}
                        : coord \in free(at.occupied)}
            ELSE IF table[i].name \in OBJECT_SPAWN_NAMES
            THEN UNION {UNION {process(table, i + 1, spawned)
                               : spawned \in spawn(table[i].name, amount, at)}
                        : amount \in table[i].min..table[i].max}
            ELSE process(table, i + 1, at)
        start == [ecs |-> e, occupied |-> {}, placed |-> <<>>]
        tabled == IF IsSome(room.spawn_table)
                  THEN UNION {process(table, 1, start) : table \in orders(Unwrap(room.spawn_table))}
                  ELSE {start}
    IN UNION {{[ecs |-> doors, placed |-> at.placed] : doors \in spawn_doors(room, at.ecs, 1)}
              : at \in tabled}

RECURSIVE spawn_all_entities(_, _, _, _)
\* ECS::spawn_all_entities, from the i-th room on
spawn_all_entities(e, rooms, depth, i) ==
    IF i > Len(rooms) THEN {e}
    ELSE UNION {spawn_all_entities(spawned.ecs, rooms, depth, i + 1)
                : spawned \in spawn_entities(rooms[i], e, depth)}

\* the orders in which the components of an entity are copied: the model
\* takes the HashSet to yield them by rising or by falling id
copy_orders(components) ==
    LET ids == {c.id : c \in components}
        rising == [i \in 1..Cardinality(ids) |->
                      CHOOSE c \in components :
                          Cardinality({o \in ids : o < c.id}) = i - 1]
    IN {rising, [i \in DOMAIN rising |-> rising[Len(rising) + 1 - i]]}

\* mutant: the new store gets a new player
copy_entity_from_other_fresh(e, other, entity_id) == make_player(e, Coord(0, 0))

\* ECS::copy_entity_from_other
copy_entity_from_other(e, other, entity_id) ==
    UNION {add_components_to_entity(create_entity(e), Len(e.entities), new_components)
           : new_components \in copy_orders(get_components_from_entity_id(other, entity_id))}

\* MapBuilder::generate_new: the maps the loop can be left with, the rooms
\* with their spawn tables and door locations
generate_new(size_x, size_y, depth) ==
    UNION {UNION {
        LET edges == prune_edges(Len(rooms), make_connected_graph(rooms, 3), 4)
            spawn_table == flood_fill_spawn_tables(rooms, edges, 8, 25)
        IN IF connected_components(Len(rooms), edges) # 1 THEN {}
           ELSE UNION {
                LET door_locations == add_doors_to_rooms(map, rooms)
                    RECURSIVE tabled(_)
                    tabled(i) ==
                        IF i > Len(rooms) THEN {<<>>}
                        ELSE {<<Room(rooms[i], Some(table), door_locations[i])>> \o rest
                              : table \in spawn_tables_of(Unwrap(spawn_table[i]), depth),
                                rest \in tabled(i + 1)}
                IN {[floor |-> map.floor, wall |-> map.wall, rooms |-> rooms,
                     graph |-> graph, width |-> size_x, height |-> size_y, depth |-> depth]
                    : graph \in tabled(1)}
                : map \in draw_rooms_to_map(rooms, edges)}
        : rooms \in make_rooms_from_bsp(bsp_leaves, 5)}
        : bsp_leaves \in binary_space_partitioning(size_x, size_y, MaxDepth)}

\* ECS::position_has_stairs
position_has_stairs(e, coord) ==
    \E entity_id \in get_entities_at_position(e, coord) :
        entity_id_has_component(e, entity_id, "Stairs")

\* Cooldowns::run_next: every spell among the components is taken off
\* cooldown
Cooldowns_run_next(components) ==
    {[i \in DOMAIN spells |->
         Change(make_change(spells[i], [spells[i].data EXCEPT !.castable = "Available"]))]
     : spells \in orders({c \in components : c.type = "Spell"})}

\* Game::run_descend_systems: the one descend system, Cooldowns, is run over
\* the entities with a Spell as run_system runs a turn system
run_descend_systems(e) ==
    LET matches == get_entities_matching_query(e, {"Spell"})
        RECURSIVE pass(_, _)
        pass(i, store) ==
            IF i > Len(matches) THEN {store}
            ELSE UNION {UNION {pass(i + 1, applied) : applied \in apply_changes(store, changes)}
                        : changes \in Cooldowns_run_next(
                                          get_components_from_entity_id(store, matches[i]))}
    IN pass(1, e)

\* mutant: the room of the player is not explored
explore_first_room_nowhere(e, g) == {g}

\* Game::explore_first_room
explore_first_room(e, g) ==
    {IF IsSome(player_position)
     THEN [g EXCEPT !.explored = explore_room(g, Unwrap(player_position))]
     ELSE g
     : player_position \in get_player_position(e)}

\* Game::make_new_map: the stores and games it can leave.  The explored
\* tiles are a field of the map and new with it (GameMap::create_empty);
\* update_systems clears the open doors of Exploration.
make_new_map(e, g, size_x, size_y, depth) ==
    UNION {UNION {UNION {
        {[ecs |-> new_ecs, g |-> game]
         : game \in explore_first_room(new_ecs, [g EXCEPT !.map = new_map, !.explored = {},
                                                          !.open_doors = {}])}
        : new_ecs \in spawn_all_entities(copied, new_map.graph, new_map.depth, 1)}
        : copied \in copy_entity_from_other(ECS_new, e, e.player_id)}
        : new_map \in generate_new(size_x, size_y, depth)}

\* Game::descend_command
descend_command(e, g) ==
    UNION {
        IF IsSome(player_position) /\ position_has_stairs(e, Unwrap(player_position))
        THEN UNION {{[ecs |-> cooled, g |-> made.g, result |-> "descended"]
                     : cooled \in run_descend_systems(made.ecs)}
                    : made \in make_new_map(e, g, g.map.width, g.map.height, g.map.depth + 1)}
        ELSE {[ecs |-> e, g |-> g, result |-> "ignored"]}
        : player_position \in get_player_position(e)}

(***************************************************************************)
(* Specification of Room::spawn_entities: it is called once, at depth 1,   *)
(* for a room two tiles high with a table flood_fill_spawn_tables can give *)
(* a room, or without a table, on a store that is empty or holds the       *)
(* player of the floor above; last records the coordinates returned.       *)
(***************************************************************************)
SpawnWidth == 3         \* tiles in a row of the room that is spawned into

InitSpawn ==
    /\ last = Idle /\ diff = Idle
    /\ \E entry \in [templates : {"Player", "SMALL_ROOMS"}, stairs_down : BOOLEAN] :
       \E spawn_table \in {Some(table) : table \in spawn_tables_of(entry, 1)} \cup {None} :
       \E door_locations \in {<<>>, <<Coord(0, 1)>>, <<Coord(2, 0), Coord(SpawnWidth + 1, 2)>>} :
          /\ mb = [stage |-> "room", depth |-> 1,
                   room |-> Room(Box(0, 0, SpawnWidth + 1, 3), spawn_table, door_locations)]
          /\ ecs \in {ECS_new} \cup make_player(ECS_new, Coord(2, 1))

SpawnEntities ==
    /\ mb.stage = "room"
    /\ \E spawned \in spawn_entities(mb.room, ecs, mb.depth) :
          /\ ecs' = spawned.ecs
          /\ last' = [kind |-> "spawn", before |-> ecs, placed |-> spawned.placed]
    /\ mb' = [mb EXCEPT !.stage = "spawned"]
    /\ UNCHANGED diff

NextSpawn == SpawnEntities

SpecSpawn == InitSpawn /\ [][NextSpawn]_vars

(***************************************************************************)
(* Specification of descend_command: it is called once on a floor of depth *)
(* 1, a tile narrower and a tile lower than the maps of the specification  *)
(* of generate_new, with one room that holds the stairs, a doggo that was  *)
(* hit and the player: spawned after the stairs and on them after some     *)
(* turns, spawned first on the stairs, or beside the stairs.               *)
(***************************************************************************)
InitDescend ==
    LET room == Box(0, 0, 4, 4)
        floor == {Coord(x, y) : x \in 1..3, y \in 1..3}
        map == [floor |-> floor, wall |-> tiles(room) \ floor, rooms |-> <<room>>,
                graph |-> <<Room(room, Some({SpawnEntry("Player", 1, 1),
                                             SpawnEntry("StairsDown", 1, 1)}), <<>>)>>,
                width |-> SizeX - 1, height |-> SizeY - 1, depth |-> 1]
        game == [stage |-> "idle", map |-> map, explored |-> {}, open_doors |-> {},
                 safe_nav_grid |-> <<>>, hazard_nav_grid |-> <<>>,
                 turn_systems |-> add_default_systems, next |-> 1, ran |-> <<>>,
                 command |-> [name |-> "new", result |-> "done"], turns |-> 0, level_ups |-> 0]
        stairs == Coord(2, 2)
        \* the floor with the player spawned before the stairs, and after them
        player_first(at) ==
            UNION {UNION {make_doggo(e2, Coord(3, 3), 6) : e2 \in make_stairs_down(e1, stairs)}
                   : e1 \in make_player(ECS_new, at)}
        stairs_first(at) ==
            UNION {UNION {make_doggo(e2, Coord(3, 3), 6) : e2 \in make_player(e1, at)}
                   : e1 \in make_stairs_down(ECS_new, stairs)}
        of_type(e, entity_id, comp_type) ==
            {c \in get_components_from_entity_id(e, entity_id) : c.type = comp_type}
        hit(e, entity_id, damage) ==
            {Change(make_change(c, Health(0 - damage, 0))) : c \in of_type(e, entity_id, "Health")}
        paid(e, coins) ==
            {Change(make_change(c, [coins |-> coins])) : c \in of_type(e, e.player_id, "Inventory")}
        cast(e) ==
            {Change(make_change(c, [c.data EXCEPT !.castable = "Cooldown"]))
             : c \in of_type(e, e.player_id, "Spell")}
        effect(e, duration, kind) ==
            MakeComponent(new_with("DurationEffect", [duration |-> duration, effect |-> kind]),
                          new_from_entity(e.player_id))
        \* what some turns on the floor did to the player
        turns(e) ==
            {<<h, p, effect(e, 5, "Stoneskin")>> : h \in hit(e, e.player_id, 4), p \in paid(e, 7)}
            \cup {<<c, effect(e, 2, "Burning"), effect(e, 8, "Invisible")>> : c \in cast(e)}
        doggo(e) == CHOOSE id \in EntityIds(e) : entity_id_has_component(e, id, "Turn")
    IN /\ last = Idle /\ diff = Idle
       /\ \E start \in UNION {{<<stairs, e, deltas>> : deltas \in turns(e)} : e \in stairs_first(stairs)}
                       \cup {<<stairs, e, <<>>>> : e \in player_first(stairs)}
                       \cup {<<Coord(1, 1), e, <<>>>> : e \in player_first(Coord(1, 1))} :
          \E wound \in hit(start[2], doggo(start[2]), 3) :
             /\ ecs \in apply_changes(start[2], <<wound>> \o start[3])
             /\ mb = [game EXCEPT !.explored = explore_room(game, start[1])]

DescendCommand ==
    /\ mb.stage = "idle"
    /\ \E outcome \in descend_command(ecs, mb) :
          /\ ecs' = outcome.ecs
          /\ mb' = [outcome.g EXCEPT
                       !.stage = "returned",
                       !.command = [name |-> "descend_command", result |-> outcome.result]]
    /\ last' = [kind |-> "command", name |-> "descend_command", args |-> <<>>,
                before |-> ecs, game |-> mb]
    /\ UNCHANGED diff

NextDescend == DescendCommand

SpecDescend == InitDescend /\ [][NextDescend]_vars

(***************************************************************************)
(* Specification of the room index: entities with one Position, the first *)
(* of them with or without a Collision, are made on the tiles of the floor *)
(* and of the row below it, moved by Change deltas of their Position along *)
(* and across the boxes of the storage tree, and deleted whole or by       *)
(* component, with and without the hint of an owner.                       *)
(***************************************************************************)
IndexTiles == {Coord(x, y) : x \in 0..(MapWidth - 1), y \in 0..1}

IndexApply(change) ==
    /\ ecs' \in apply_change(ecs, change)
    /\ last' = [kind |-> "index", change |-> change]
    /\ UNCHANGED <<diff, mb>>

IndexMakeEntity ==
    /\ Len(ecs.entities) < MaxEntities
    /\ \E start \in IndexTiles :
       \E others \in {<<>>} \cup {<<new_with("Collision", "Blocking")>> : first \in {0} \ EntityIds(ecs)} :
          IndexApply(MakeEntity(<<new_with("Position", start)>> \o others))

IndexChange ==
    \E component_id \in ComponentIds(ecs) :
    \E step \in Range(Directions) \cup {Coord(2, 0), Coord(0 - 2, 0)} :
       /\ ecs.components[component_id].type = "Position"
       /\ CoordAdd(ecs.components[component_id].data, step) \in IndexTiles
       /\ IndexApply(Change(make_change(ecs.components[component_id], step)))

IndexDeleteEntity ==
    \E entity_id \in EntityIds(ecs) :
       /\ entity_data(ecs, entity_id) # {}
       /\ IndexApply(DeleteEntity(new_from_entity(entity_id)))

IndexDeleteComponent ==
    \E component_id \in ComponentIds(ecs) :
    \E entity_id \in {None} \cup {Some(id) : id \in EntityIds(ecs)} :
       IndexApply(DeleteComponent(component_id, entity_id))

InitIndex == ecs = ECS_new /\ last = Idle /\ diff = Idle /\ mb = Idle

NextIndex ==
    \/ IndexMakeEntity
    \/ IndexChange
    \/ IndexDeleteEntity
    \/ IndexDeleteComponent

SpecIndex == InitIndex /\ [][NextIndex]_vars

(***************************************************************************)
(* Claims about the store.                                                 *)
(***************************************************************************)
\* C1: after any sequence of deltas, every component id in an entity's
\* component-id set is present in the component table.
C1_ReferentialIntegrity ==
    \A id \in EntityIds(ecs) : entity_data(ecs, id) \subseteq ComponentIds(ecs)

\* C2: a DeleteEntity that resolves to an existing entity leaves none of the
\* ids that entity owned in the component table, leaves its set empty, and
\* leaves the sets and the components of every other entity as they were.
C2_DeleteEntityDeletesOwned ==
    [][(/\ last'.kind = "DeleteEntity"
        /\ IsSome(last'.target)
        /\ has_entity(ecs, Unwrap(last'.target)))
       => LET id == Unwrap(last'.target)
          IN /\ has_entity(ecs', id)
             /\ entity_data(ecs', id) = {}
             /\ entity_data(ecs, id) \cap ComponentIds(ecs') = {}
             /\ Len(ecs'.entities) = Len(ecs.entities)
             /\ \A o \in EntityIds(ecs) \ {id} :
                   /\ entity_data(ecs', o) = entity_data(ecs, o)
                   /\ \A c \in entity_data(ecs, o) \cap ComponentIds(ecs) :
                         /\ c \in ComponentIds(ecs')
                         /\ ecs'.components[c] = ecs.components[c]]_vars

\* C2 witness: an entity that owned a component was deleted while another
\* entity still holds one
C2_Witness ==
    /\ last.kind = "DeleteEntity"
    /\ IsSome(last.target)
    /\ last.owned # {}
    /\ last.owned \cap ComponentIds(ecs) = {}
    /\ \E o \in EntityIds(ecs) : entity_data(ecs, o) \cap ComponentIds(ecs) # {}

\* C3: a DeleteComponent for a component id in the table removes the id from
\* the table and from the set of the entity that owned it, with a hint
\* (entity_id = Some) as well as without (entity_id = None).
C3_DeleteComponentDetaches ==
    (last.kind = "DeleteComponent" /\ last.existed)
    => /\ Unwrap(last.component_id) \notin ComponentIds(ecs)
       /\ IsSome(last.target) =>
             Unwrap(last.component_id) \notin entity_data(ecs, Unwrap(last.target))

\* C4: the ids handed out at attachment are strictly increasing in
\* attachment order, every component in the table carries the id it is
\* stored under, and that id was handed out.
C4_IdsStrictlyIncreasing ==
    /\ \A i, j \in DOMAIN ecs.handed_out :
          i < j => ecs.handed_out[i] < ecs.handed_out[j]
    /\ \A c \in ComponentIds(ecs) :
          ecs.components[c].id = c /\ c \in Range(ecs.handed_out)

\* C4 witness: a component was attached after an earlier one was deleted
C4_Witness ==
    /\ last.kind \in {"MakeComponent", "MakeEntity"}
    /\ \E i, j \in DOMAIN ecs.handed_out :
          /\ i < j
          /\ ecs.handed_out[i] \notin ComponentIds(ecs)
          /\ ecs.handed_out[j] \in ComponentIds(ecs)

\* C5: for Health, Inventory, Position and DurationEffect, applying Change A
\* then Change B leaves the same component value as Change B then Change A.
C5_AdditiveMergesCommute ==
    (diff.step = 2
     /\ diff.a.type \in {"Health", "Inventory", "Position", "DurationEffect"})
    => diff.ab.components[0] = diff.ba.components[0]

\* C5 witness: two different non-zero DurationEffect deltas with different
\* effect types have been merged in both orders
C5_Witness ==
    /\ diff.step = 2
    /\ diff.a.type = "DurationEffect"
    /\ diff.a.data.effect # diff.b.data.effect
    /\ diff.a.data.duration # 0
    /\ diff.b.data.duration # 0
    /\ diff.a.data.duration # diff.b.data.duration
    /\ diff.ab.components[0] = diff.ba.components[0]

\* C6: the order of two Attributes deltas does not matter.
C6_AttributesCommute ==
    (diff.step = 2 /\ diff.a.type = "Attributes")
    => diff.ab.components[0] = diff.ba.components[0]

\* C7: after the deltas of a Bump on a closed door are applied, the door
\* has Collision::Walkable, LoSBlocking::None, the "open" image as current
\* image, and a BumpResponse with the close-door response and the own
\* entity it had before.
C7_BumpOpensClosedDoor ==
    (last.kind = "Bump" /\ last.closed)
    => LET own_components == get_components_from_entity_id(ecs, last.target)
           data(type) == {c.data : c \in {d \in own_components : d.type = type}}
       IN /\ data("Collision") = {"Walkable"}
          /\ data("LineOfSight") = {"None"}
          /\ {i.current : i \in data("Image")} = {[id |-> 10, depth |-> 7]}
          /\ \A i \in data("Image") : i.current = i.states["open"]
          /\ {r.response_function : r \in data("BumpResponse")} = {"close_door_response"}
          /\ {r.own_entity : r \in data("BumpResponse")} = last.own_entity
          /\ last.own_entity = {last.target}

\* C7 witness: a unit bumped into a closed door that is not entity 0, and
\* the door is open
C7_Witness ==
    /\ last.kind = "Bump"
    /\ last.closed
    /\ last.target # 0
    /\ "Position" \in last.payload
    /\ \E c \in get_components_from_entity_id(ecs, last.target) :
          c.type = "Collision" /\ c.data = "Walkable"

(***************************************************************************)
(* Claims about the map builder.                                           *)
(***************************************************************************)
\* the floor tiles inside the walls of a room
interior(box) ==
    {Coord(x, y) : x \in (box.top_left.x + 1)..(box.bottom_right.x - 1),
                   y \in (box.top_left.y + 1)..(box.bottom_right.y - 1)}

\* the passable tiles joined to one of the given tiles by steps along an axis
RECURSIVE passable_region(_, _)
passable_region(map, region) ==
    LET steps == {Coord(0, 1), Coord(0, 0 - 1), Coord(1, 0), Coord(0 - 1, 0)}
        joined == region \cup {c \in map.floor : \E s \in steps : CoordAdd(c, s) \in region}
    IN IF joined = region THEN region ELSE passable_region(map, joined)

\* the room the player is put in
entrance(rooms, spawn_table) ==
    {n \in DOMAIN rooms : IsSome(spawn_table[n]) /\ Unwrap(spawn_table[n]).templates = "Player"}

\* C8: the room graph of a returned map has one connected component: the
\* walk over graph edges that starts at the entrance room visits every room.
C8_ReturnedGraphConnected ==
    mb.stage = "returned" =>
        /\ entrance(mb.rooms, mb.spawn_table) # {}
        /\ \A room \in entrance(mb.rooms, mb.spawn_table) :
              reachable(mb.edges, {room}) = DOMAIN mb.rooms

\* a map is returned whose graph has several rooms
C8_Witness ==
    /\ mb.stage = "returned"
    /\ Len(mb.rooms) >= 3
    /\ Len(mb.edges) >= 2

\* C9: in a returned map, for each edge of the room graph there is a path
\* of passable tiles, each step along one axis, between the interiors of
\* the two rooms of the edge.
C9_EdgesHavePassablePaths ==
    mb.stage = "returned" =>
        \A i \in DOMAIN mb.edges :
            \E from \in interior(mb.rooms[mb.edges[i].source]) :
                passable_region(mb.map, {from})
                    \cap interior(mb.rooms[mb.edges[i].target]) # {}

\* C10: every door location recorded on a room is a passable tile, and
\* along exactly one of the two axes both of its neighbours are impassable.
C10_DoorsPassableOneAxisBlocked ==
    mb.stage = "returned" =>
        \A node \in DOMAIN mb.door_locations :
            \A door \in Range(mb.door_locations[node]) :
                LET blocked(a, b) == /\ CoordAdd(door, a) \notin mb.map.floor
                                     /\ CoordAdd(door, b) \notin mb.map.floor
                    vertical_axis == blocked(Coord(0, 1), Coord(0, 0 - 1))
                    horizontal_axis == blocked(Coord(1, 0), Coord(0 - 1, 0))
                IN /\ door \in mb.map.floor
                   /\ vertical_axis # horizontal_axis

\* a returned map has a room with a door recorded
C10_Witness ==
    /\ mb.stage = "returned"
    /\ \E node \in DOMAIN mb.door_locations : mb.door_locations[node] # <<>>


\* C11: the box random_subbox returns for a box with its corners in order
\* has its corners in order on both axes and lies inside the input box.
C11_SubboxOrderedAndContained ==
    mb.stage = "subbox" =>
        /\ mb.room_box.top_left.x <= mb.room_box.bottom_right.x
        /\ mb.room_box.top_left.y <= mb.room_box.bottom_right.y
        /\ mb.area.top_left.x <= mb.room_box.top_left.x
        /\ mb.area.top_left.y <= mb.room_box.top_left.y
        /\ mb.room_box.bottom_right.x <= mb.area.bottom_right.x
        /\ mb.room_box.bottom_right.y <= mb.area.bottom_right.y

\* a box was shrunk on both axes
C11_Witness ==
    /\ mb.stage = "subbox"
    /\ mb.room_box.top_left.x > mb.area.top_left.x
    /\ mb.room_box.top_left.y > mb.area.top_left.y
    /\ mb.room_box.bottom_right.x < mb.area.bottom_right.x

\* C12 as stated: the two boxes split_box returns do not overlap
\* (BoxExtends::overlaps is false for the pair) and every tile of the input
\* box lies in at least one of them.
C12_HalvesDisjointAndCover ==
    mb.stage = "split" =>
        /\ ~overlaps(mb.a, mb.b)
        /\ tiles(mb.area) \subseteq tiles(mb.a) \cup tiles(mb.b)

\* C12 amended: the two boxes split_box returns share the tiles of the
\* split line, one full row or one full column of the input box, and no
\* other tile; every tile of the input box lies in at least one of them and
\* neither has a tile outside of it.
C12_HalvesShareSplitLine ==
    mb.stage = "split" =>
        LET shared == tiles(mb.a) \cap tiles(mb.b)
            row(y) == {c \in tiles(mb.area) : c.y = y}
            column(x) == {c \in tiles(mb.area) : c.x = x}
        IN /\ overlaps(mb.a, mb.b)
           /\ \/ \E y \in mb.area.top_left.y..mb.area.bottom_right.y : shared = row(y)
              \/ \E x \in mb.area.top_left.x..mb.area.bottom_right.x : shared = column(x)
           /\ tiles(mb.a) \cup tiles(mb.b) = tiles(mb.area)

\* a box was split into two boxes that both are smaller than it
C12_Witness ==
    /\ mb.stage = "split"
    /\ mb.a # mb.area
    /\ mb.b # mb.area

\* the number of steps after which following the recorded directions from
\* a tile ends at the origin, or -1 when a tile comes again or has no
\* direction
RECURSIVE steps_to_origin(_, _, _, _)
steps_to_origin(nav_grid, origin, tile, visited) ==
    IF tile = origin THEN 0
    ELSE IF tile \in visited \/ tile \notin DOMAIN nav_grid THEN 0 - 1
    ELSE LET rest == steps_to_origin(nav_grid, origin, CoordAdd(tile, nav_grid[tile]),
                                     visited \cup {tile})
         IN IF rest < 0 THEN rest ELSE rest + 1

\* the tiles at most the given number of steps along an axis from the
\* origin, over floor tiles that hold no blocking entity other than a monster
RECURSIVE within(_, _, _, _)
within(map, e, origin, steps) ==
    IF steps = 0 THEN {origin}
    ELSE LET near == within(map, e, origin, steps - 1)
             free(c) == \A id \in get_entities_at_position(e, c) :
                            \/ entity_id_has_component(e, id, "Monster")
                            \/ \A k \in get_components_from_entity_id(e, id) :
                                  ~(k.type = "Collision" /\ k.data = "Blocking")
         IN near \cup {c \in map.floor :
                          /\ free(c)
                          /\ \E n \in near : CoordSub(c, n) \in
                                {Coord(0, 1), Coord(0, 0 - 1), Coord(1, 0), Coord(0 - 1, 0)}}

\* C13: zero heuristic, no hazards, origin the position of the player: from
\* every tile of the returned grid, moving by the recorded directions never
\* comes to a tile twice and reaches the origin in as many steps as the
\* shortest path along the axes from the tile to the origin has.
C13_DirectionsFollowShortestPaths ==
    mb.stage = "nav_grid" =>
        \A tile \in DOMAIN mb.nav_grid :
            LET steps == steps_to_origin(mb.nav_grid, mb.origin, tile, {})
            IN /\ steps > 0
               /\ tile \in within(mb.map, ecs, mb.origin, steps)
               /\ tile \notin within(mb.map, ecs, mb.origin, steps - 1)

\* a grid holds a tile whose shortest path is longer than its distance
\* along the axes, walls being in the way
C13_Witness ==
    /\ mb.stage = "nav_grid"
    /\ \E tile \in DOMAIN mb.nav_grid :
          LET dx == tile.x - mb.origin.x
              dy == tile.y - mb.origin.y
          IN steps_to_origin(mb.nav_grid, mb.origin, tile, {})
                > (IF dx < 0 THEN 0 - dx ELSE dx) + (IF dy < 0 THEN 0 - dy ELSE dy)

\* C14: line_of_sight is false exactly when a tile of the traced line other
\* than its two ends is a wall or holds an entity whose LineOfSight is
\* Blocking; the two ends and entities whose LineOfSight is Partial do not
\* block.
C14_BlockedExactlyBetween ==
    mb.stage = "line_of_sight" =>
        LET full_line == linetrace(mb.origin, mb.destination)
            blocks(point) ==
                \/ point \in mb.map.wall
                \/ \E id \in EntityIds(ecs) :
                      /\ \E c \in get_components_from_entity_id(ecs, id) :
                            c.type = "Position" /\ c.data = point
                      /\ \E c \in get_components_from_entity_id(ecs, id) :
                            c.type = "LineOfSight" /\ c.data = "Blocking"
        IN /\ full_line[1] = mb.origin
           /\ full_line[Len(full_line)] = mb.destination
           /\ mb.seen.kind = "returned" =>
                 ((mb.seen.value = FALSE) <=>
                     (\E i \in 2..(Len(full_line) - 1) : blocks(full_line[i])))

\* a line with two tiles between its ends is seen along although both ends
\* are walls, and a line is blocked by an entity between its ends
C14_Witness ==
    /\ mb.stage = "line_of_sight"
    /\ Len(linetrace(mb.origin, mb.destination)) >= 4
    /\ mb.origin \in mb.map.wall
    /\ mb.destination \in mb.map.wall
    /\ mb.seen = [kind |-> "returned", value |-> TRUE]

\* C15: every end of turn runs the turn systems once each in the order
\* Exploration, Fire, Acid, Stoneskin, Duration, UnitCull, PlayerCheck,
\* MonsterTurns: the systems run since the command began are always the
\* first ones of that order, a pass that has just finished is the last of
\* them and began on the store the previous one left, and when the end of
\* turn returns all eight have run.
C15_FixedPipelineOrder ==
    mb.stage \in {"idle", "end_turn"} =>
        LET order == <<"Exploration", "Fire", "Acid", "Stoneskin", "Duration", "UnitCull",
                       "PlayerCheck", "MonsterTurns">>
        IN /\ Len(mb.ran) <= Len(order)
           /\ \A i \in DOMAIN mb.ran : mb.ran[i] = order[i]
           /\ mb.stage = "end_turn" => mb.next = Len(mb.ran) + 1 /\ mb.ran # order
           /\ last.kind = "pass" => mb.ran # <<>> /\ last.system = mb.ran[Len(mb.ran)]
           /\ mb.stage = "idle" /\ mb.command.result = "end_turn" => mb.ran = order

\* an end of turn has returned after its systems ran, the burning player
\* having lost health on the way
C15_Witness ==
    /\ mb.stage = "idle"
    /\ mb.command.result = "end_turn"
    /\ Len(mb.ran) = 8
    /\ mb.turns = 1
    /\ \E c \in Range(ecs.components) : c.type = "Health" /\ c.data.current < c.data.max

\* C16 as stated: within a pass of a system every matched entity is
\* processed on the store the pass began on
C16_DeltasHiddenWithinPass ==
    last.kind = "pass" =>
        \A i \in DOMAIN last.passes : last.passes[i].view = last.before

\* C16, amended: the entities a pass processes are those matching the
\* query on the store the pass began on; the first is processed on that
\* store, each next one on the store left by applying the deltas of the one
\* before it, and the store after the pass is the one left by applying the
\* deltas of the last.
C16_DeltasAppliedPerEntity ==
    last.kind = "pass" =>
        LET passes == last.passes
            matches == get_entities_matching_query(last.before, get_requirements(last.system))
        IN /\ Len(passes) = Len(matches)
           /\ \A i \in DOMAIN passes : passes[i].entity = matches[i]
           /\ passes # <<>> => passes[1].view = last.before
           /\ \A i \in DOMAIN passes :
                 i > 1 => passes[i].view \in apply_changes(passes[i - 1].view,
                                                           passes[i - 1].changes)
           /\ IF passes = <<>> THEN ecs = last.before
              ELSE ecs \in apply_changes(passes[Len(passes)].view, passes[Len(passes)].changes)

\* a pass of Fire over two burning entities, the second processed on a
\* store that the deltas of the first have changed
C16_Witness ==
    /\ last.kind = "pass"
    /\ last.system = "Fire"
    /\ Len(last.passes) >= 2
    /\ last.passes[1].changes # <<>>
    /\ last.passes[2].view # last.before

\* C17 as stated: a command that changed the store or applied its change
\* list has ended the turn
C17_EveryCommandEndsTurn ==
    last.kind = "command" /\ (ecs # last.before \/ mb.command.result = "done")
        => mb.stage = "end_turn"

\* C17, amended: wait_command always ends the turn; of step_command,
\* target_command, shoot_command, cast_spell_command and close_doors_command
\* none changes the store without ending the turn, and each that ends the
\* turn returns after the eight systems ran once; level_up_command applies
\* its change list and runs no system.
C17_TurnCommandsEndTurn ==
    LET turn_commands == {"wait_command", "step_command", "target_command", "shoot_command",
                          "cast_spell_command", "close_doors_command"}
    IN /\ last.kind = "command" /\ last.name = "wait_command" => mb.stage = "end_turn"
       /\ last.kind = "command" /\ last.name \in turn_commands /\ ecs # last.before
             => mb.stage = "end_turn" /\ mb.ran = <<>> /\ mb.next = 1
       /\ mb.stage = "idle" /\ mb.command.name \in turn_commands
             /\ mb.command.result = "end_turn"
             => Len(mb.ran) = 8 /\ \A i, j \in DOMAIN mb.ran : i # j => mb.ran[i] # mb.ran[j]
       /\ mb.stage \in {"idle", "end_turn"} /\ mb.command.name = "level_up_command"
             => mb.stage = "idle" /\ mb.ran = <<>>

\* level_up_command has raised the level of the player and refilled the
\* health, and no system has run
C17_Witness ==
    /\ last.kind = "command"
    /\ last.name = "level_up_command"
    /\ mb.stage = "idle"
    /\ mb.ran = <<>>
    /\ \E c \in Range(ecs.components) : c.type = "Attributes" /\ c.data.level = 2
    /\ \E c \in Range(ecs.components) : c.type = "Health" /\ c.data.max = 12

\* C18: a shoot_command at a blocking entity that is out of sight, farther
\* than the range of the ranged attack or on a tile next to the player or
\* the own tile, a cast_spell_command for an index the player has no spell
\* at or while the spells are on cooldown, and a step_command towards a tile
\* that is not passable leave the store, the map and the explored tiles as
\* they were and start no end of turn.
C18_FailedCommandsChangeNothing ==
    [][LET own_position == CHOOSE c \in get_components_from_entity_id(ecs, ecs.player_id) :
                           c.type = "Position"
           combat == CHOOSE c \in get_components_from_entity_id(ecs, ecs.player_id) :
                         c.type = "Combat"
           spells == {c \in Range(ecs.components) : c.type = "Spell"}
           coord == last'.args[1]
           distance == distance_squared(coord, own_position.data)
           range == Unwrap(combat.data.ranged).max_range
           holds(id, comp_type, data) ==
               \E c \in get_components_from_entity_id(ecs, id) : c.type = comp_type /\ c.data = data
           blocked == \E id \in EntityIds(ecs) :
                         holds(id, "Position", coord) /\ holds(id, "Collision", "Blocking")
           failed ==
               \/ /\ last'.name = "shoot_command"
                  /\ blocked
                  /\ \/ [kind |-> "returned", value |-> FALSE]
                           \in line_of_sight(own_position.data, coord, mb.map, ecs)
                     \/ distance > range * range
                     \/ distance <= 1
               \/ /\ last'.name = "cast_spell_command"
                  /\ \/ coord < 0
                     \/ coord >= Cardinality(spells)
                     \/ \A spell \in spells : spell.data.castable = "Cooldown"
               \/ /\ last'.name = "step_command"
                  /\ CoordAdd(own_position.data, coord) \notin mb.map.floor
       IN mb.stage = "idle" /\ last'.kind = "command" /\ failed
             => /\ ecs' = ecs
                /\ mb'.map = mb.map
                /\ mb'.explored = mb.explored
                /\ mb'.open_doors = mb.open_doors
                /\ mb'.stage # "end_turn"
                /\ mb'.ran = <<>>
                /\ mb'.turns = mb.turns]_vars

\* the player has shot at a door behind a closed door and at a door out of
\* range of the ranged attack: nothing changed and no system ran
C18_Witness ==
    /\ last.kind = "command"
    /\ last.name = "shoot_command"
    /\ mb.stage = "idle"
    /\ mb.command.result = "aborted"
    /\ \E id \in EntityIds(ecs) :
          /\ \E c \in get_components_from_entity_id(ecs, id) : c.type = "Door"
          /\ \E c \in get_components_from_entity_id(ecs, id) :
                /\ c.type = "Position" /\ c.data = last.args[1]
                /\ distance_squared(c.data, Coord(1, 1)) > 25

\* C19: a delta whose target does not exist is dropped.  Whenever the store
\* takes a Change or a DeleteComponent that names an id not in the component
\* table, a DeleteEntity or a MakeComponent whose identifier resolves to no
\* entity of the table, or a DeleteComponent that names an entity not owning
\* the component, the entity table, the component table and the room index
\* are after the step what they were before it.
C19_MissingTargetsDropped ==
    [][LET unknown(entity) ==
               LET target == get_entity_id_from_identifier(ecs, entity)
               IN ~IsSome(target) \/ ~has_entity(ecs, Unwrap(target))
           hints == {None} \cup {Some(i) : i \in EntityIdInputs}
           missing ==
               {d \in ChangeInputs : d.component.id \notin ComponentIds(ecs)}
               \cup {DeleteComponent(c, hint) : c \in ComponentIdInputs \ ComponentIds(ecs),
                                                hint \in hints}
               \cup {DeleteEntity(entity) : entity \in {i \in Identifiers : unknown(i)}}
               \cup {MakeComponent(component, entity) :
                        component \in EcsTemplates, entity \in {i \in Identifiers : unknown(i)}}
               \cup UNION {{DeleteComponent(c, Some(i)) :
                               i \in {o \in EntityIdInputs :
                                         ~has_entity(ecs, o) \/ c \notin entity_data(ecs, o)}}
                           : c \in ComponentIds(ecs)}
       IN \A d \in missing :
             ecs' \in apply_change(ecs, d) /\ last' = Record(ecs, d)
                => /\ ecs'.entities = ecs.entities
                   /\ ecs'.components = ecs.components
                   /\ ecs'.rooms = ecs.rooms]_vars

\* C20: propagate_event leaves the store as it was; when the target holds a
\* response component of the kind of the event (BumpResponse for Bump,
\* ShotResponse for Shot, DeathResponse for Death, FireResponse for Fire) the
\* list returned is one that the function of that component returns for the
\* event, and when it holds none the list is empty.
C20_OnlyMatchingResponse ==
    mb.stage = "propagated" =>
        LET kind == mb.event.event_type
            response_type == IF kind = "Bump" THEN "BumpResponse"
                             ELSE IF kind = "Shot" THEN "ShotResponse"
                             ELSE IF kind = "Death" THEN "DeathResponse"
                             ELSE "FireResponse"
            matching == {c \in get_components_from_entity_id(ecs, mb.target) :
                            c.type = response_type}
        IN /\ ecs = last.before
           /\ matching = {} => mb.deltas = <<>>
           /\ matching # {} =>
                 \E c \in matching : mb.deltas \in process_event(c.data, mb.event, ecs)

\* a Fire event at a closed door, which holds a BumpResponse as well, has
\* returned the deltas of its FireResponse: no delta touches the Collision
\* that the BumpResponse would change
C20_Witness ==
    /\ mb.stage = "propagated"
    /\ mb.event.event_type = "Fire"
    /\ \E c \in get_components_from_entity_id(ecs, mb.target) : c.type = "Door"
    /\ \E c \in get_components_from_entity_id(ecs, mb.target) : c.type = "BumpResponse"
    /\ mb.deltas # <<>>
    /\ \A i \in DOMAIN mb.deltas :
          mb.deltas[i].kind = "Change" => mb.deltas[i].component.type # "Collision"

(***************************************************************************)
(* Claims about the monsters.                                              *)
(***************************************************************************)
\* the data of the component of the type the entity holds
data_of(e, entity_id, comp_type) ==
    (CHOOSE c \in get_components_from_entity_id(e, entity_id) : c.type = comp_type).data

\* the player carries an Invisible effect
player_invisible(e) ==
    \E c \in get_components_from_entity_id(e, e.player_id) :
        c.type = "DurationEffect" /\ c.data.effect = "Invisible"

\* C21: a monster put to sleep with the counter n >= 1, the player not
\* invisible, holds Sleeping(n - t) after t < n turns and is Alert after n
\* turns and later; in the first n - 1 turns it performs Sleep and in turn
\* n Awake, and during these n turns it stays on its tile and the player
\* is not hurt.
C21_SleepCountdown ==
    mb.scenario = "sleep" =>
        LET n == mb.budget - 1
            t == mb.turns
        IN /\ ~player_invisible(ecs)
           /\ data_of(ecs, 1, "Turn").state = IF t < n THEN Sleeping(n - t) ELSE Alert
           /\ t <= n => /\ data_of(ecs, 1, "Position") = mb.monsters[1].start
                        /\ data_of(ecs, 0, "Health") = Health(10, 10)
           /\ (mb.stage = "idle" /\ 1 <= t /\ t <= n) =>
                 /\ last.kind = "pass" /\ last.system = "MonsterTurns"
                 /\ Len(last.passes) = 1
                 /\ last.passes[1].entity = 1
                 /\ last.passes[1].actions = IF t < n THEN <<"Sleep">> ELSE <<"Awake">>

\* a monster asleep for two turns or more has just been woken
C21_Witness ==
    /\ mb.scenario = "sleep" /\ mb.stage = "idle"
    /\ mb.budget >= 3 /\ mb.turns = mb.budget - 1
    /\ last.passes[1].actions = <<"Awake">>
    /\ data_of(ecs, 1, "Turn").state = Alert

\* C22: while the player carries an Invisible effect, whatever else it
\* carries, every monster selects Wander alone when it has a line of sight
\* to the player and Sleep alone when it has none.
C22_InvisiblePreempts ==
    player_invisible(ecs) =>
        \A id \in EntityIds(ecs) :
        \A turn \in {c \in get_components_from_entity_id(ecs, id) : c.type = "Turn"} :
        \A self_report \in make_unit_report(get_components_from_entity_id(ecs, id)) :
        \A player_report \in get_player_report(ecs) :
            (IsSome(self_report) /\ IsSome(player_report)) =>
                \A selected \in select_action(turn.data.behavior, Unwrap(self_report),
                                              Unwrap(player_report), turn.data.state,
                                              mb.map, ecs) :
                \A sight \in line_of_sight(Unwrap(self_report).position.data,
                                           Unwrap(player_report).position.data, mb.map, ecs) :
                    /\ selected.kind = "selected"
                    /\ sight.kind = "returned"
                    /\ selected.actions = IF sight.value THEN <<"Wander">> ELSE <<"Sleep">>

\* the store a pass of a system left when the i-th matched entity was done
store_after(i) == IF i < Len(last.passes) THEN last.passes[i + 1].view ELSE ecs

\* the tiles of the rectangle spanned by the two tiles, without the two
between(a, b) ==
    {Coord(x, y) : x \in cmp_min(a.x, b.x)..cmp_max(a.x, b.x),
                   y \in cmp_min(a.y, b.y)..cmp_max(a.y, b.y)} \ {a, b}

\* an alert melee monster three steps from the player, no wall and no
\* blocking entity between the two
three_tiles_away(e, entity_id) ==
    LET my_pos == data_of(e, entity_id, "Position")
        pl_pos == data_of(e, e.player_id, "Position")
    IN /\ data_of(e, entity_id, "Turn").behavior.kind = "Melee"
       /\ data_of(e, entity_id, "Turn").state = Alert
       /\ cmp_max(my_pos.x - pl_pos.x, pl_pos.x - my_pos.x)
            + cmp_max(my_pos.y - pl_pos.y, pl_pos.y - my_pos.y) = 3
       /\ \A tile \in between(my_pos, pl_pos) :
             is_tile_passable(mb.map, tile) /\ ~is_blocked_by_entity(e, tile)

\* the monster moved by a unit vector and ended closer to the player
stepped_closer(before, after, entity_id) ==
    LET old_pos == data_of(before, entity_id, "Position")
        new_pos == data_of(after, entity_id, "Position")
        pl_pos == data_of(before, before.player_id, "Position")
    IN /\ CoordSub(new_pos, old_pos) \in Range(Directions)
       /\ distance_squared(new_pos, pl_pos) < distance_squared(old_pos, pl_pos)

RECURSIVE tiles_entered(_, _)
tiles_entered(from, changes) ==
    IF changes = <<>> THEN <<>>
    ELSE IF Head(changes).kind = "Change" /\ Head(changes).component.type = "Position"
    THEN <<CoordAdd(from, Head(changes).component.data)>>
         \o tiles_entered(CoordAdd(from, Head(changes).component.data), Tail(changes))
    ELSE tiles_entered(from, Tail(changes))

\* the entities with a blocking collision on the tile
blocking_at(e, tile) ==
    {id \in EntityIds(e) :
        /\ \E c \in get_components_from_entity_id(e, id) : c.type = "Position" /\ c.data = tile
        /\ \E c \in get_components_from_entity_id(e, id) :
              c.type = "Collision" /\ c.data = "Blocking"}

\* C24: in a MonsterTurns pass no step of a monster, the second step of a
\* double approach included, leads onto a tile that holds a blocking entity
\* in the store the monster is processed on, which has the moves of the
\* monsters processed before it; and no tile ever holds two blocking
\* entities.
C24_NoMoveOntoBlocked ==
    /\ \A id \in EntityIds(ecs) :
          \A c \in get_components_from_entity_id(ecs, id) :
             c.type = "Position" => Cardinality(blocking_at(ecs, c.data)) <= 1
    /\ (last # Idle /\ last.kind = "pass" /\ last.system = "MonsterTurns") =>
          \A i \in DOMAIN last.passes :
             LET entered == tiles_entered(
                                data_of(last.passes[i].view, last.passes[i].entity, "Position"),
                                last.passes[i].changes)
             IN \A k \in DOMAIN entered : blocking_at(last.passes[i].view, entered[k]) = {}

\* the second monster of a pass selected an approach and stayed, its way
\* barred by the monster that moved before it
C24_Witness ==
    /\ last # Idle /\ last.kind = "pass" /\ last.system = "MonsterTurns"
    /\ Len(last.passes) = 2
    /\ tiles_entered(data_of(last.before, last.passes[1].entity, "Position"),
                     last.passes[1].changes) # <<>>
    /\ "Approach" \in Range(last.passes[2].actions)
    /\ last.passes[2].changes = <<>>
    /\ LET own_position == data_of(ecs, last.passes[2].entity, "Position")
           grid == IF data_of(ecs, last.passes[2].entity, "Turn").avoid_hazards
                   THEN mb.safe_nav_grid ELSE mb.hazard_nav_grid
       IN /\ own_position \in DOMAIN grid
          /\ blocking_at(last.before, CoordAdd(own_position, grid[own_position])) = {}
          /\ blocking_at(ecs, CoordAdd(own_position, grid[own_position]))
                = {last.passes[1].entity}


\* the data of the components of a type an entity owns
all_data_of(e, entity_id, comp_type) ==
    {c.data : c \in {c \in get_components_from_entity_id(e, entity_id) : c.type = comp_type}}

\* the pass records of an entity matched under UnitCull whose health was
\* at or below zero when the system processed it
culled(passes) ==
    {i \in 1..Len(passes) :
        \E health \in all_data_of(passes[i].view, passes[i].entity, "Health") : health.current <= 0}

\* C27: after the UnitCull pass of a turn every entity whose health was at
\* or below zero when UnitCull processed it is deleted with all its
\* components, the deltas of its DeathResponse were applied before the
\* deletion (the loot of a skeleton lies on its tile), and no entity without
\* health above zero acts in the MonsterTurns pass of the turn.
C27_CulledBeforeMonsterTurns ==
    /\ (last.kind = "pass" /\ last.system = "UnitCull") =>
          \A i \in culled(last.passes) :
             LET view == last.passes[i].view
                 dead == last.passes[i].entity
                 owned == get_components_from_entity_id(view, dead)
                 changes == last.passes[i].changes
                 death == [event_type |-> "Death", attack |-> None, payload |-> {}]
             IN /\ get_components_from_entity_id(ecs, dead) = {}
                /\ \A c \in owned : c.id \notin ComponentIds(ecs)
                /\ changes # <<>>
                /\ changes[Len(changes)] = DeleteEntity(new_from_entity(dead))
                /\ SubSeq(changes, 1, Len(changes) - 1) \in propagate_event(death, dead, view)
                /\ \A k \in 1..(Len(changes) - 1) : changes[k].kind # "DeleteEntity"
                /\ \A response \in all_data_of(view, dead, "DeathResponse") :
                   \A inventory \in all_data_of(view, dead, "Inventory") :
                   \A at \in all_data_of(view, dead, "Position") :
                      response.response_function = "drop_inventory_response" =>
                         \E loot \in EntityIds(ecs) \ EntityIds(view) :
                            /\ all_data_of(ecs, loot, "Position") = {at}
                            /\ all_data_of(ecs, loot, "Inventory") = {inventory}
    /\ (last.kind = "pass" /\ last.system = "MonsterTurns") =>
          \A i \in 1..Len(last.passes) :
             /\ \E health \in all_data_of(last.before, last.passes[i].entity, "Health") :
                   health.current > 0
             /\ last.passes[i].actions # <<>> =>
                   \E health \in all_data_of(last.passes[i].view, last.passes[i].entity, "Health") :
                      health.current > 0

\* UnitCull has deleted a skeleton and left its loot; the other monster acts
\* in the MonsterTurns pass
C27_Witness ==
    /\ last.kind = "pass" /\ last.system = "MonsterTurns"
    /\ mb.scenario = "cull"
    /\ \E dead \in EntityIds(ecs) :
          /\ get_components_from_entity_id(ecs, dead) = {}
          /\ \E loot \in EntityIds(ecs) :
                \E response \in all_data_of(ecs, loot, "BumpResponse") :
                   response.response_function = "pickup_loot_response"
    /\ \E i \in 1..Len(last.passes) : last.passes[i].actions # <<>>

\* the rooms whose spawn table holds the entry
rooms_with_player(spawn_table) ==
    {node \in DOMAIN spawn_table :
        IsSome(spawn_table[node]) /\ Unwrap(spawn_table[node]).templates = "Player"}

rooms_with_stairs(spawn_table) ==
    {node \in DOMAIN spawn_table :
        IsSome(spawn_table[node]) /\ Unwrap(spawn_table[node]).stairs_down}

\* C28: after flood_fill_spawn_tables on a connected room graph every room
\* has a spawn table, exactly one room, the one with the lexicographically
\* smallest top left corner, holds the Player entry, and exactly one room,
\* the last one the flood fill processed, holds the StairsDown entry.
C28_SpawnTables ==
    mb.stage = "spawn_tables" =>
        LET processed == flood_fill(mb.rooms, mb.edges, 8, 25).processed
            smaller(a, b) == a.x < b.x \/ (a.x = b.x /\ a.y < b.y)
        IN /\ DOMAIN mb.spawn_table = DOMAIN mb.rooms
           /\ \A node \in DOMAIN mb.rooms : IsSome(mb.spawn_table[node])
           /\ \E first \in DOMAIN mb.rooms :
                 /\ rooms_with_player(mb.spawn_table) = {first}
                 /\ \A other \in DOMAIN mb.rooms \ {first} :
                       smaller(mb.rooms[first].top_left, mb.rooms[other].top_left)
           /\ processed # <<>>
           /\ rooms_with_stairs(mb.spawn_table) = {processed[Len(processed)]}

\* a graph of three rooms or more, one of them processed twice, with the
\* stairs in another room than the player
C28_Witness ==
    /\ mb.stage = "spawn_tables"
    /\ Cardinality(DOMAIN mb.rooms) >= 3
    /\ rooms_with_player(mb.spawn_table) # rooms_with_stairs(mb.spawn_table)
    /\ LET processed == flood_fill(mb.rooms, mb.edges, 8, 25).processed
       IN Len(processed) > Cardinality(DOMAIN mb.rooms)

\* how often each data value occurs among the components of a type an
\* entity owns, the entity a response is bound to left aside
counted(e, entity_id, comp_type) ==
    LET held == {c \in get_components_from_entity_id(e, entity_id) : c.type = comp_type}
        plain(c) == IF comp_type \in ResponseTypes THEN c.data.response_function
                    ELSE IF comp_type = "Spell" THEN [name |-> c.data.name, effect |-> c.data.effect]
                    ELSE c.data
    IN [d \in {plain(c) : c \in held} |-> Cardinality({c \in held : plain(c) = d})]

types_of(e, entity_id) == {c.type : c \in get_components_from_entity_id(e, entity_id)}

\* the player stands on a tile that holds an entity with Stairs, by a scan
\* of the store
player_on_stairs(e) ==
    \E at \in all_data_of(e, e.player_id, "Position") :
    \E entity_id \in EntityIds(e) :
        /\ at \in all_data_of(e, entity_id, "Position")
        /\ "Stairs" \in types_of(e, entity_id)

\* the entity is as a spawn function of the depth makes it
freshly_spawned(e, entity_id, depth) ==
    \E name \in {"StairsDown", "Door", "Doggo", "Pewpewpet", "Corpse"} :
    \E at \in all_data_of(e, entity_id, "Position") :
    \E fresh \in spawn_func(name, ECS_new, at, depth) :
        /\ types_of(fresh, 0) = types_of(e, entity_id)
        /\ \A comp_type \in types_of(fresh, 0) :
              counted(fresh, 0, comp_type) = counted(e, entity_id, comp_type)

\* C25: descend_command with the player on a tile that holds a Stairs
\* entity replaces map and store by a floor of depth + 1 on which the player
\* is the one entity taken from the old store, the data of its components
\* as before but for its position and the cooldown of its spells, and every
\* other entity is as its spawn function makes it; with the player not on
\* stairs the command changes neither the store nor the game.
C25_DescendKeepsPlayerOnly ==
    (last.kind = "command" /\ last.name = "descend_command") =>
        IF player_on_stairs(last.before)
        THEN /\ mb.command.result = "descended"
             /\ mb.map.depth = last.game.map.depth + 1
             /\ has_player(ecs)
             /\ types_of(ecs, ecs.player_id) = types_of(last.before, last.before.player_id)
             /\ \A comp_type \in types_of(ecs, ecs.player_id) \ {"Position"} :
                   counted(ecs, ecs.player_id, comp_type)
                       = counted(last.before, last.before.player_id, comp_type)
             /\ \A entity_id \in EntityIds(ecs) \ {ecs.player_id} :
                   freshly_spawned(ecs, entity_id, mb.map.depth)
        ELSE /\ mb.command.result = "ignored"
             /\ ecs = last.before
             /\ mb = [last.game EXCEPT !.stage = mb.stage, !.command = mb.command]

\* the player went down with less health, coins, an effect and a store in
\* which it was not the first entity, and is on the new floor with stairs
C25_Witness ==
    /\ last.kind = "command" /\ last.name = "descend_command"
    /\ mb.command.result = "descended"
    /\ last.before.player_id # ecs.player_id
    /\ \E health \in all_data_of(ecs, ecs.player_id, "Health") : health.current < health.max
    /\ \E effect \in all_data_of(ecs, ecs.player_id, "DurationEffect") : effect.effect = "Stoneskin"
    /\ \E entity_id \in EntityIds(ecs) : "Stairs" \in types_of(ecs, entity_id)
    /\ Cardinality(EntityIds(last.before)) > 2

\* C26 as stated: after a successful descend_command the explored set
\* still contains the coordinates that were explored before the descent.
C26_ExploredSurvives ==
    (last.kind = "command" /\ last.name = "descend_command"
     /\ mb.command.result = "descended") =>
        last.game.explored \subseteq mb.explored

\* C26, amended: after a successful descend_command the explored set is
\* that of the new map: it holds the tiles of the rooms of the new floor
\* that contain the position of the player and no other coordinate.
C26_ExploredIsNew ==
    (last.kind = "command" /\ last.name = "descend_command"
     /\ mb.command.result = "descended") =>
        \A at \in all_data_of(ecs, ecs.player_id, "Position") :
            mb.explored = UNION {tiles(mb.map.rooms[n])
                                 : n \in {k \in DOMAIN mb.map.rooms :
                                             contains_point(mb.map.rooms[k], at)}}

\* a descent after which a tile explored on the floor above is not explored
C26_Witness ==
    /\ last.kind = "command" /\ last.name = "descend_command"
    /\ mb.command.result = "descended"
    /\ mb.explored # {}
    /\ last.game.explored \ mb.explored # {}

\* C29: everything Room::spawn_entities places from the spawn table of a
\* room, the player it moves on a new floor included, is on an interior
\* tile of the room that is not within distance 1 of a door location, and
\* no two of them are on the same tile.
C29_SpawnedApart ==
    last.kind = "spawn" =>
        \A i \in DOMAIN last.placed :
            LET at == last.placed[i].coord
                extends == mb.room.extends
            IN /\ extends.top_left.x < at.x /\ at.x < extends.bottom_right.x
               /\ extends.top_left.y < at.y /\ at.y < extends.bottom_right.y
               /\ \A k \in DOMAIN mb.room.door_locations :
                     distance_squared(at, mb.room.door_locations[k]) > 1
               /\ \E entity_id \in EntityIds(ecs) : at \in all_data_of(ecs, entity_id, "Position")
               /\ \A j \in DOMAIN last.placed : j # i => last.placed[j].coord # at

\* the entities that own a Position equal to the coordinate, by a scan of
\* the entity table
scan_for_position(e, coord) ==
    {entity_id \in EntityIds(e) : coord \in all_data_of(e, entity_id, "Position")}

\* C30: with the BSP tree as storage graph, after any sequence of entity
\* creations, Position Change deltas and deletions of entities and
\* components, get_all_entities_in_tile returns for every coordinate the
\* entities that own a Position equal to it, the set a scan of all entities
\* gives.
C30_IndexIsScan ==
    \A coord \in IndexTiles :
    \A found \in get_all_entities_in_tile(ecs, coord) :
        Range(found) = scan_for_position(ecs, coord)

\* an entity was moved from one box of the tree into the other and is
\* found there, while the id of a deleted entity is still in a room
C30_Witness ==
    /\ last.kind = "index" /\ last.change.kind = "Change"
    /\ \E entity_id \in EntityIds(ecs) :
       \E to \in all_data_of(ecs, entity_id, "Position") :
          /\ get_entity_from_component(ecs, last.change.component.id) = Some(entity_id)
          /\ get_room_at_coordinate(CoordSub(to, last.change.component.data)) # get_room_at_coordinate(to)
          /\ \E found \in get_all_entities_in_tile(ecs, to) : entity_id \in Range(found)
    /\ \E node \in StorageNodes : \E stale \in ecs.rooms[node] : entity_data(ecs, stale) = {}

\* the tiles two boxes share
shared_tiles(a, b) == tiles(a) \cap tiles(b)

\* C31: overlaps is symmetric, true for every two boxes with their corners
\* in order that share a tile, and false for every two that share none.
C31_OverlapsIsSharing ==
    mb.stage = "overlaps" =>
        /\ mb.result = mb.reverse
        /\ mb.result = (shared_tiles(mb.a, mb.b) # {})

\* the boxes random_subbox can return for the area of the state, when the
\* area is so large that a draw of 0.5 shrinks an edge by a tile or more
subboxes_of_roomy_area ==
    IF /\ mb.stage = "subbox"
       /\ mb.area.bottom_right.x - position(mb.area).x >= 2
       /\ mb.area.bottom_right.y - position(mb.area).y >= 2
    THEN random_subbox(mb.area, 3)
    ELSE {}

\* C32: random_subbox shrinks each of the four edges inward: for an area
\* with room for it there are draws for which the left, the top, the right
\* and the bottom edge of the box returned lie strictly inside the area;
\* and the box returned has sides of the minimum length or more whenever
\* the area has.
C32_EveryEdgeShrinks ==
    /\ subboxes_of_roomy_area # {} =>
          /\ \E out \in subboxes_of_roomy_area : out.top_left.x > mb.area.top_left.x
          /\ \E out \in subboxes_of_roomy_area : out.top_left.y > mb.area.top_left.y
          /\ \E out \in subboxes_of_roomy_area : out.bottom_right.x < mb.area.bottom_right.x
          /\ \E out \in subboxes_of_roomy_area : out.bottom_right.y < mb.area.bottom_right.y
    /\ (/\ mb.stage = "subbox"
        /\ mb.area.bottom_right.x - mb.area.top_left.x + 1 >= 3
        /\ mb.area.bottom_right.y - mb.area.top_left.y + 1 >= 3) =>
          /\ mb.room_box.bottom_right.x - mb.room_box.top_left.x + 1 >= 3
          /\ mb.room_box.bottom_right.y - mb.room_box.top_left.y + 1 >= 3

\* the graph of the state is connected: it has a room, and every room is
\* joined to the first by a chain of edges
one_island == mb.rooms # <<>> /\ reachable(mb.edges, {1}) = DOMAIN mb.rooms

\* C33: the loop of generate_new has no cap on its passes.  After the graph
\* of a pass is made the function goes on to draw the map exactly when the
\* graph has one connected component, keeping rooms and edges; in every
\* other case, a graph without rooms included, the next step is the
\* beginning of another pass, whatever the number of passes before it, and
\* there is no step to an error.  The map is drawn and returned only for a
\* graph with one component.
C33_LoopUntilConnected ==
    [][/\ mb.stage = "graph" =>
             IF one_island
             THEN mb'.stage = "connected" /\ mb'.rooms = mb.rooms /\ mb'.edges = mb.edges
             ELSE mb'.stage = "loop"
       /\ mb.stage = "loop" => mb'.stage = "partitioned"
       /\ mb'.stage \in {"loop", "partitioned", "rooms", "graph", "connected", "drawn",
                         "spawn_tables", "returned"}
       /\ mb'.stage \in {"connected", "drawn", "spawn_tables", "returned"} =>
             mb'.rooms # <<>> /\ reachable(mb'.edges, {1}) = DOMAIN mb'.rooms]_vars

\* a pass has ended in which every room was pruned, and the loop begins again
C33_Witness ==
    /\ mb.stage = "loop"
    /\ "islands" \in DOMAIN mb
    /\ mb.islands = 0

(***************************************************************************)
(* Specification of casting and descending: a floor of depth 1 with one    *)
(* room of one row, the stairs spawned first and the player spawned after  *)
(* them, on the stairs, with the spells of make_player and the Stoneskin   *)
(* of a level up.  The player casts spells until a cast is turned down or  *)
(* MaxCasts + 1 turns have passed, and descends when the cast after the    *)
(* first turn was turned down.  The last command is recorded with the id   *)
(* of the spell the index picked.                                          *)
(***************************************************************************)
MaxCasts == 1           \* turns after which one more spell is cast

InitCooldown ==
    LET room == Box(0, 0, 4, 2)
        floor == {Coord(x, 1) : x \in 1..3}
        map == [floor |-> floor, wall |-> tiles(room) \ floor, rooms |-> <<room>>,
                graph |-> <<Room(room, Some({SpawnEntry("Player", 1, 1),
                                             SpawnEntry("StairsDown", 1, 1)}), <<>>)>>,
                width |-> SizeX - 1, height |-> SizeY - 1, depth |-> 1]
        game == [stage |-> "idle", map |-> map, explored |-> {}, open_doors |-> {},
                 safe_nav_grid |-> <<>>, hazard_nav_grid |-> <<>>,
                 turn_systems |-> add_default_systems, next |-> 1, ran |-> <<>>,
                 command |-> [name |-> "new", result |-> "done"], turns |-> 0, level_ups |-> 0]
        stairs == Coord(1, 1)
        spawned == UNION {make_player(e, stairs) : e \in make_stairs_down(ECS_new, stairs)}
        \* the spell level_up_command adds for the choice of Stoneskin
        learned(e) == MakeComponent(new_with("Spell", SPELL_REGISTRY[4]),
                                    new_from_entity(e.player_id))
    IN /\ last = Idle /\ diff = Idle
       /\ ecs \in UNION {apply_changes(e, <<learned(e)>>) : e \in spawned}
       /\ mb = [game EXCEPT !.explored = explore_room(game, stairs)]

CooldownCast ==
    /\ mb.stage = "idle"
    /\ mb.turns <= MaxCasts
    /\ mb.command.result # "aborted"
    /\ \E spell_id \in 0..2 :
       \E spell \in {c \in Range(ecs.components) : c.type = "Spell"} :
       \E outcome \in cast_spell_command(ecs, mb, spell_id) \cap cast_spell(ecs, spell) :
          Returns("cast_spell_command", <<spell.id>>, outcome)

CooldownDescend ==
    /\ mb.command = [name |-> "cast_spell_command", result |-> "aborted"]
    /\ mb.turns = 1
    /\ DescendCommand

NextCooldown ==
    \/ CooldownCast
    \/ CooldownDescend
    \/ RunTurnSystems

SpecCooldown == InitCooldown /\ [][NextCooldown]_vars

\* C34: own_entity of every BumpResponse, ShotResponse, DeathResponse and
\* FireResponse is the id of the entity that owns the component, after
\* every command, cast and system pass.
C34_OwnEntityIsOwner ==
    \A id \in EntityIds(ecs) :
       \A c \in get_components_from_entity_id(ecs, id) :
          c.type \in ResponseTypes => c.data.own_entity = id

\* the Spell components of a store
spells_of(e) == {c \in Range(e.components) : c.type = "Spell"}

\* C40: a cast_spell_command that picks a spell that is Available ends the
\* turn and leaves the spell on Cooldown; one that picks a spell on
\* Cooldown changes nothing in the store and ends no turn; the systems of
\* the turn leave every spell as it is; and after a descend_command that
\* descended the player has the spells it had and all of them are
\* Available.
C40_CooldownUntilDescent ==
    [][/\ (mb.stage = "idle" /\ last'.kind = "command" /\ last'.name = "cast_spell_command") =>
             IF ecs.components[last'.args[1]].data.castable = "Available"
             THEN /\ mb'.stage = "end_turn"
                  /\ mb'.command.result = "end_turn"
                  /\ last'.args[1] \in ComponentIds(ecs')
                  /\ ecs'.components[last'.args[1]].data.castable = "Cooldown"
             ELSE /\ ecs.components[last'.args[1]].data.castable = "Cooldown"
                  /\ ecs' = ecs
                  /\ mb'.stage = "idle"
                  /\ mb'.turns = mb.turns
       /\ mb.stage = "end_turn" => spells_of(ecs') = spells_of(ecs)
       /\ (last'.kind = "command" /\ last'.name = "descend_command"
           /\ mb'.command.result = "descended") =>
             /\ \A c \in spells_of(ecs') : c.data.castable = "Available"
             /\ {c.data.name : c \in spells_of(ecs')} = {c.data.name : c \in spells_of(ecs)}
             /\ Cardinality(spells_of(ecs')) = Cardinality(spells_of(ecs))]_vars

\* the player has descended after a cast of a spell on Cooldown was turned
\* down, and the spell is Available on the new floor
C40_Witness ==
    /\ last # Idle /\ last.kind = "command" /\ last.name = "descend_command"
    /\ mb.command.result = "descended"
    /\ last.game.command = [name |-> "cast_spell_command", result |-> "aborted"]
    /\ last.game.turns = 1
    /\ \E c \in spells_of(last.before) : c.data.castable = "Cooldown"
    /\ \A c \in spells_of(ecs) : c.data.castable = "Available"

\* Game::is_player_alive: the values it can return
is_player_alive(e) ==
    {IF IsSome(maybe_health) THEN Unwrap(maybe_health).data.current >= 0 ELSE FALSE
     : maybe_health \in take_component_from_refs(
                            "Health", get_components_from_entity_id(e, e.player_id))}

(***************************************************************************)
(* Specification of the doorway: the two rooms of the turn engine with the *)
(* door between them open, as a bump of the player leaves it; the player   *)
(* stands next to the door and a monster that came through stands in the   *)
(* doorway or behind it.  The player is unhurt or down to its last hit     *)
(* point.  Each turn the player waits or closes the doors.                 *)
(***************************************************************************)
MaxDoorwayTurns == 2    \* turns of the scenario

InitDoorway ==
    LET floor == {Coord(x, 1) : x \in 1..TurnWidth}
        rooms == <<Box(0, 0, 3, 2), Box(3, 0, TurnWidth + 1, 2)>>
        map == [floor |-> floor,
                wall |-> (tiles(rooms[1]) \cup tiles(rooms[2])) \ floor,
                rooms |-> rooms]
        game == [stage |-> "idle", map |-> map, explored |-> {}, open_doors |-> {},
                 safe_nav_grid |-> <<>>, hazard_nav_grid |-> <<>>,
                 turn_systems |-> add_default_systems, next |-> 1, ran |-> <<>>,
                 command |-> [name |-> "new", result |-> "done"], turns |-> 0, level_ups |-> 0]
        door == Coord(3, 1)
        with_door == UNION {make_door(e, door) : e \in make_player(ECS_new, Coord(2, 1))}
        \* the door after the player bumped into it
        opened(e) ==
            UNION {propagate_and_apply_events(e, Unwrap(report).bump, <<1>>)
                   : report \in get_player_report(e)}
        wounded(e, damage) ==
            IF damage = 0 THEN {e}
            ELSE UNION {apply_change(e, Change(make_change(Unwrap(health), Health(0 - damage, 0))))
                        : health \in get_component_from_entity_id(e, e.player_id, "Health")}
    IN /\ last = Idle /\ diff = Idle
       /\ \E monster \in [kind : {"doggo", "skelly"}, start : {door, Coord(4, 1)}] :
          \E damage \in {0, 9} :
             /\ ecs \in UNION {UNION {UNION {make_monster(hurt, monster)
                                             : hurt \in wounded(open, damage)}
                                      : open \in opened(e)}
                               : e \in with_door}
             /\ mb = [game EXCEPT !.explored = explore_room(game, Coord(2, 1))]

DoorwayWait ==
    /\ mb.stage = "idle" /\ mb.turns < MaxDoorwayTurns
    /\ \E outcome \in wait_command(ecs, mb) : Returns("wait_command", <<>>, outcome)

DoorwayCloseDoors ==
    /\ mb.stage = "idle" /\ mb.turns < MaxDoorwayTurns
    /\ \E outcome \in close_doors_command(ecs, mb) : Returns("close_doors_command", <<>>, outcome)

NextDoorway ==
    \/ DoorwayWait
    \/ DoorwayCloseDoors
    \/ RunTurnSystems

SpecDoorway == InitDoorway /\ [][NextDoorway]_vars

\* C35: no tile holds two entities with a blocking collision, after a
\* close_doors_command with a unit in the open doorway next to the player
\* as after every other command and every pass of a turn system.
C35_OneBlockerPerTile ==
    \A tile \in mb.map.floor \cup mb.map.wall : Cardinality(blocking_at(ecs, tile)) <= 1

\* C36: after every command that has returned, with the turn it ended,
\* is_player_alive returns false when the player was culled or has a
\* Health with current <= 0, and true otherwise.
C36_AliveIsAboveZero ==
    mb.stage = "idle" =>
        is_player_alive(ecs)
            = {\E c \in get_components_from_entity_id(ecs, ecs.player_id) :
                  c.type = "Health" /\ c.data.current > 0}

\* C37: line_of_sight returns for a line from a coordinate to itself as
\* for every other, and a shoot_command at the player's own tile is turned
\* down like one at any other tile that is too close: it returns, the
\* store is unchanged and no turn ends.
C37_OwnTileShotRejected ==
    [][(/\ mb.stage = "idle"
        /\ last'.kind = "command"
        /\ last'.name = "shoot_command"
        /\ \E c \in get_components_from_entity_id(ecs, ecs.player_id) :
              c.type = "Position" /\ c.data = last'.args[1]) =>
          /\ \A seen \in line_of_sight(last'.args[1], last'.args[1], mb.map, ecs) :
                seen.kind = "returned"
          /\ mb'.command.result = "aborted"
          /\ mb'.stage = "idle"
          /\ mb'.turns = mb.turns
          /\ ecs' = ecs]_vars

\* C39: in the Duration pass of every turn each DurationEffect with a
\* duration other than 0 loses exactly 1 of it and each with duration 0 is
\* deleted, each effect of an entity that carries several included.
C39_EveryEffectCountsDown ==
    [][(mb.stage = "end_turn" /\ mb.turn_systems[mb.next] = "Duration") =>
          \A c \in Range(ecs.components) :
             c.type = "DurationEffect" =>
                IF c.data.duration = 0
                THEN c.id \notin ComponentIds(ecs')
                ELSE /\ c.id \in ComponentIds(ecs')
                     /\ ecs'.components[c.id].data.duration = c.data.duration - 1]_vars

(***************************************************************************)
(* Specification of the exploration of a floor.  The floor is one that     *)
(* generate_new builds on a map of ExploreSizeX x ExploreSizeY tiles; the  *)
(* player stands in the room it started in, next to one of the doors of    *)
(* the room, and steps.  The Exploration pass of the turn that follows     *)
(* runs explore_flood_fill for the door that was opened, one pass of its   *)
(* while loop at a time: mb.stage is "exploring" inside the loop,          *)
(* mb.fill_queue the queue and mb.filling the door.  A pass of the loop is *)
(* followed while the coordinate it pops lies on the map or on the ring of *)
(* coordinates around it, and the turn is followed to the end of the       *)
(* Exploration pass, the first of its passes.                              *)
(***************************************************************************)
ExploreSizeX == 9
ExploreSizeY == 10

\* a partition binary_space_partitioning yields for the map: the upper
\* leaf of the first split is split into a left and a right leaf, the lower
\* one into an upper and a lower leaf
ExploreLeaves == <<Box(0, 0, 4, 3), Box(4, 0, 8, 3), Box(0, 3, 8, 6), Box(0, 6, 8, 9)>>

\* a room random_subbox cuts from the last leaf
ExploreRoom == Box(0, 6, 6, 9)

\* the floors generate_new returns for a map of size_x x size_y tiles and
\* the partition when the first leaf is kept whole as the first room, the
\* room of the second leaf is dropped by prune_small_rooms and the room of
\* the last leaf is ExploreRoom (the room of the third leaf is any that
\* random_subbox cuts), with the door locations and the room the player
\* starts in
ExploreFloors(size_x, size_y) ==
    IF ExploreLeaves \notin binary_space_partitioning(size_x, size_y, MaxDepth)
    THEN {}
    ELSE UNION {
        LET edges == prune_edges(Len(rooms), make_connected_graph(rooms, 3), 4)
            spawn_table == flood_fill_spawn_tables(rooms, edges, 8, 25)
        IN IF connected_components(Len(rooms), edges) # 1 THEN {}
           ELSE {[floor |-> map.floor, wall |-> map.wall, rooms |-> rooms,
                  door_locations |-> add_doors_to_rooms(map, rooms),
                  start |-> CHOOSE n \in DOMAIN rooms :
                                Unwrap(spawn_table[n]).templates = "Player"]
                 : map \in draw_rooms_to_map(rooms, edges)}
        : rooms \in {r \in make_rooms_from_bsp(ExploreLeaves, 5) :
                        Len(r) = 3 /\ r[1] = ExploreLeaves[1] /\ r[3] = ExploreRoom}}

\* the doors the Exploration pass has not seen open before
newly_opened(e, g) ==
    {id \in EntityIds(e) :
        /\ id \notin g.open_doors
        /\ entity_id_has_component(e, id, "Door")
        /\ entity_id_has_component(e, id, "Position")
        /\ \E c \in get_components_from_entity_id(e, id) :
              c.type = "Collision" /\ c.data = "Walkable"}

\* GameMap::explore_flood_fill: one pass of the while loop, from pop_back
\* to the pushes
explore_flood_fill_loop(fill_queue, seen, map, e) ==
    LET adjacent == <<Coord(1, 0), Coord(0 - 1, 0), Coord(0, 1), Coord(0, 0 - 1)>>
        current == fill_queue[Len(fill_queue)]
        popped == SubSeq(fill_queue, 1, Len(fill_queue) - 1)
        inserted == seen \cup {current}
        unvisited_neighbors ==
            SelectSeq([i \in 1..4 |-> CoordAdd(current, adjacent[i])],
                      LAMBDA n : n \notin inserted)
        is_blocked_by_door ==
            \E blocking \in get_blocking_entity(e, current) :
                /\ IsSome(blocking)
                /\ \E c \in get_components_from_entity_id(e, Unwrap(blocking)) : c.type = "Door"
        RECURSIVE corners(_, _)
        corners(explored, points) ==
            IF points = <<>> THEN explored
            ELSE LET visited_neighbors ==
                         Cardinality({i \in 1..4 :
                                         CoordAdd(Head(points), adjacent[i]) \in explored})
                 IN corners(IF visited_neighbors >= 2 /\ Head(points) \in map.wall
                            THEN explored \cup {Head(points)} ELSE explored,
                            Tail(points))
    IN IF is_blocked_by_door \/ current \in map.wall
       THEN [fill_queue |-> popped, explored |-> corners(inserted, unvisited_neighbors)]
       ELSE [fill_queue |-> [i \in 1..Len(unvisited_neighbors) |->
                                unvisited_neighbors[Len(unvisited_neighbors) + 1 - i]]
                            \o popped,
             explored |-> inserted]

InitExplore ==
    LET game(level) ==
            [stage |-> "idle", map |-> [floor |-> level.floor, wall |-> level.wall,
                                        rooms |-> level.rooms],
             explored |-> {}, open_doors |-> {},
             safe_nav_grid |-> <<>>, hazard_nav_grid |-> <<>>,
             turn_systems |-> add_default_systems, next |-> 1, ran |-> <<>>,
             command |-> [name |-> "new", result |-> "done"], turns |-> 0, level_ups |-> 0,
             fill_queue |-> <<>>, filling |-> None]
        RECURSIVE doors(_, _, _)
        doors(level, e, i) ==
            IF i > Len(level.rooms) THEN {e}
            ELSE UNION {doors(level, made, i + 1)
                        : made \in spawn_doors(Room(level.rooms[i], None,
                                                    level.door_locations[i]), e, 1)}
    IN /\ last = Idle /\ diff = Idle
       /\ \E level \in ExploreFloors(ExploreSizeX, ExploreSizeY) :
          \E at \in {c \in interior(level.rooms[level.start]) :
                        \E k \in DOMAIN level.door_locations[level.start] :
                           distance_squared(c, level.door_locations[level.start][k]) = 1} :
             /\ ecs \in UNION {doors(level, player, 1) : player \in make_player(ECS_new, at)}
             /\ mb = [game(level) EXCEPT !.explored = explore_room(game(level), at)]

\* Exploration::run_next for the door that was opened, up to the while loop
\* of explore_flood_fill
ExplorationBegin ==
    /\ mb.stage = "end_turn"
    /\ mb.turn_systems[mb.next] = "Exploration"
    /\ \E door \in newly_opened(ecs, mb) :
       \E pos_data \in get_component_from_entity_id(ecs, door, "Position") :
          LET start == Unwrap(pos_data).data
              explored == explore_room(mb, start)
              unvisited_neighbors ==
                  SelectSeq([i \in 1..4 |-> CoordAdd(start, <<Coord(1, 0), Coord(0 - 1, 0),
                                                               Coord(0, 1), Coord(0, 0 - 1)>>[i])],
                            LAMBDA n : n \notin explored)
          IN mb' = [mb EXCEPT
                      !.stage = "exploring",
                      !.explored = explored,
                      !.filling = Some(door),
                      !.fill_queue = [i \in 1..Len(unvisited_neighbors) |->
                                         unvisited_neighbors[Len(unvisited_neighbors) + 1 - i]]
                                     \o <<start>>]
    /\ UNCHANGED <<ecs, last, diff>>

\* one pass of the while loop
ExplorationFill ==
    /\ mb.stage = "exploring"
    /\ mb.fill_queue # <<>>
    /\ mb.fill_queue[Len(mb.fill_queue)].x \in (0 - 1)..ExploreSizeX
    /\ mb.fill_queue[Len(mb.fill_queue)].y \in (0 - 1)..ExploreSizeY
    /\ LET pass == explore_flood_fill_loop(mb.fill_queue, mb.explored, mb.map, ecs)
       IN mb' = [mb EXCEPT !.fill_queue = pass.fill_queue, !.explored = pass.explored]
    /\ UNCHANGED <<ecs, last, diff>>

\* the queue is empty: explore_flood_fill returns, run_next notes the door
\* and the pass of the system ends
ExplorationEnd ==
    /\ mb.stage = "exploring"
    /\ mb.fill_queue = <<>>
    /\ mb' = [mb EXCEPT !.stage = "end_turn",
                        !.open_doors = @ \cup {Unwrap(mb.filling)},
                        !.filling = None,
                        !.ran = Append(@, mb.turn_systems[mb.next]),
                        !.next = @ + 1]
    /\ UNCHANGED <<ecs, last, diff>>

\* the Exploration pass of a turn in which no door was opened
ExplorationIdle ==
    /\ mb.stage = "end_turn"
    /\ mb.turn_systems[mb.next] = "Exploration"
    /\ newly_opened(ecs, mb) = {}
    /\ RunTurnSystems

NextExplore ==
    \/ StepCommand
    \/ ExplorationBegin
    \/ ExplorationFill
    \/ ExplorationEnd
    \/ ExplorationIdle

SpecExplore == InitExplore /\ [][NextExplore]_vars

\* C38: explore_flood_fill marks as explored only coordinates that hold a
\* tile of the map and never takes a coordinate without a tile into its
\* queue, so that on every floor of the map builder it has no more than the
\* tiles of the floor to visit and comes to an end.
C38_FillKeepsToTiles ==
    /\ mb.explored \subseteq mb.map.floor \cup mb.map.wall
    /\ Range(mb.fill_queue) \subseteq mb.map.floor \cup mb.map.wall
====
